---- MODULE Spec2Model ----
(***************************************************************************)
(* Dec19x19: a fixed-point decimal held as an i128 scaled by 10^19.        *)
(*                                                                         *)
(* The operations work on 128-bit and 256-bit integers, far beyond the     *)
(* integers of the model checker, so every integer of the program is held  *)
(* at full width as a sign and a magnitude, the magnitude being a sequence *)
(* of base-10000 limbs, least significant first, without leading zeros.    *)
(* Nothing is scaled down: FRAC_SCALE is 10^19, MAX is 2^127 - 1.          *)
(***************************************************************************)
EXTENDS Integers, Sequences, FiniteSets, TLC

VARIABLES lhs, rhs, addend, digits, exp, str, formatter, overflow_checks,
          debug_assertions, mul_opt, op, out

vars ==
    <<lhs, rhs, addend, digits, exp, str, formatter, overflow_checks,
      debug_assertions, mul_opt, op, out>>

(***************************************************************************)
(* Magnitudes (u128 / the absolute value of an i128 or i256).              *)
(***************************************************************************)

BASE == 10000

Limb(s, i) == IF i <= Len(s) THEN s[i] ELSE 0

\* drop the leading (most significant) zero limbs
NNorm(s) ==
    IF s = << >> \/ s[Len(s)] # 0 THEN s
    ELSE LET top == CHOOSE m \in 0..Len(s) :
                        /\ (m = 0 \/ s[m] # 0)
                        /\ \A j \in (m + 1)..Len(s) : s[j] = 0
         IN SubSeq(s, 1, top)

\* a native integer 0 <= n < 2^31 as a magnitude
NFromInt(n) == NNorm(<<n % BASE, (n \div BASE) % BASE, n \div (BASE * BASE)>>)

\* -1, 0, 1 as a < b, a = b, a > b
NCmp(a, b) ==
    IF Len(a) # Len(b) THEN (IF Len(a) < Len(b) THEN -1 ELSE 1)
    ELSE IF a = b THEN 0
    ELSE LET m == CHOOSE i \in 1..Len(a) :
                      /\ a[i] # b[i]
                      /\ \A j \in (i + 1)..Len(a) : a[j] = b[j]
         IN IF a[m] < b[m] THEN -1 ELSE 1

\* the magnitude with the limb sums s, each below 2 * BASE: the carry into
\* limb i is 1 when a lower limb overflows and every limb between is full
NCarry(s) ==
    NNorm([i \in 1..(Len(s) + 1) |->
              (Limb(s, i)
                 + (IF \E j \in 1..(i - 1) :
                          /\ s[j] >= BASE
                          /\ \A k \in (j + 1)..(i - 1) : s[k] = BASE - 1
                    THEN 1 ELSE 0)) % BASE])

NAdd(a, b) ==
    NCarry([i \in 1..(IF Len(a) > Len(b) THEN Len(a) ELSE Len(b)) |->
               Limb(a, i) + Limb(b, i)] \o << >>)

\* the magnitude with the limb differences d, each above -BASE, the borrow
\* found like the carry of NCarry
NBorrow(d) ==
    NNorm([i \in 1..Len(d) |->
              (d[i] + BASE
                 - (IF \E j \in 1..(i - 1) :
                          /\ d[j] < 0
                          /\ \A k \in (j + 1)..(i - 1) : d[k] = 0
                    THEN 1 ELSE 0)) % BASE])

\* a - b for a >= b
NSub(a, b) == NBorrow([i \in 1..Len(a) |-> a[i] - Limb(b, i)] \o << >>)

\* the magnitude with the limb values t, each below BASE * BASE
NSplit(t) ==
    NCarry([i \in 1..(Len(t) + 1) |->
               (Limb(t, i) % BASE) + (IF i = 1 THEN 0 ELSE t[i - 1] \div BASE)]
           \o << >>)

\* a * m for a native 0 <= m <= BASE
NMulSmall(a, m) == NSplit([i \in 1..Len(a) |-> a[i] * m] \o << >>)

\* a * BASE^k
NShift(a, k) == IF a = << >> THEN a ELSE [i \in 1..k |-> 0] \o a

\* the sum of a[i] * b[k + 1 - i] for i in lo..hi
RECURSIVE ColSum(_, _, _, _, _)
ColSum(a, b, k, lo, hi) ==
    IF lo > hi THEN 0
    ELSE IF lo = hi THEN a[lo] * b[k + 1 - lo]
    ELSE ColSum(a, b, k, lo, (lo + hi) \div 2)
           + ColSum(a, b, k, (lo + hi) \div 2 + 1, hi)

\* the magnitude with the column sums c of a product, each below 2^31
NMulCols(c) ==
    NAdd(NSplit([k \in 1..Len(c) |-> c[k] % (BASE * BASE)] \o << >>),
         NNorm([k \in 1..(Len(c) + 2) |->
                   IF k <= 2 THEN 0 ELSE c[k - 2] \div (BASE * BASE)]))

\* schoolbook product; a column sum stays below 2^31 for factors of at most
\* 21 limbs
NMul(a, b) ==
    IF a = << >> \/ b = << >> THEN << >>
    ELSE NMulCols([k \in 1..(Len(a) + Len(b) - 1) |->
                      ColSum(a, b, k,
                             IF k + 1 - Len(b) > 1 THEN k + 1 - Len(b) ELSE 1,
                             IF k < Len(a) THEN k ELSE Len(a))] \o << >>)

\* a decimal literal, written in groups of four digits, most significant first
NLit(g) == NNorm([i \in 1..Len(g) |-> g[Len(g) + 1 - i]])

NPow10(k) == NShift(<<10 ^ (k % 4)>>, k \div 4)

\* a div 10^k
NDivPow10(a, k) ==
    NNorm([i \in 1..(Len(a) - k \div 4) |->
              (Limb(a, k \div 4 + i + 1) % (10 ^ (k % 4))) * (BASE \div (10 ^ (k % 4)))
                 + a[k \div 4 + i] \div (10 ^ (k % 4))])

\* a mod 10^k
NModPow10(a, k) ==
    NNorm([i \in 1..(k \div 4 + 1) |->
              IF i <= k \div 4 THEN Limb(a, i) ELSE Limb(a, i) % (10 ^ (k % 4))])

\* b = 10^k for some k
IsPow10(b) ==
    /\ b # << >>
    /\ b[Len(b)] \in {1, 10, 100, 1000}
    /\ \A i \in 1..(Len(b) - 1) : b[i] = 0

\* the k of a b = 10^k
Pow10Exp(b) ==
    4 * (Len(b) - 1)
      + (IF b[Len(b)] = 1 THEN 0 ELSE IF b[Len(b)] = 10 THEN 1
         ELSE IF b[Len(b)] = 100 THEN 2 ELSE 3)

\* long division, the top limb of b at least BASE / 2: the estimate of the
\* next limb of the quotient from the top limbs of the remainder r and of b
NQHat(r, b) ==
    LET rt == Limb(r, Len(b) + 1) * BASE + Limb(r, Len(b))
    IN IF rt \div b[Len(b)] > BASE - 1 THEN BASE - 1 ELSE rt \div b[Len(b)]

\* <<d, r - d * b>> for the greatest d <= qh with d * b <= r, given p = qh * b;
\* d is at most 2 below the estimate qh
RECURSIVE NQFix(_, _, _, _)
NQFix(r, b, qh, p) ==
    IF NCmp(p, r) <= 0 THEN <<qh, NSub(r, p)>>
    ELSE NQFix(r, b, qh - 1, NSub(p, b))

NQDigit(r, b) == NQFix(r, b, NQHat(r, b), NMulSmall(b, NQHat(r, b)))

\* limb i of a is brought down to the remainder r; q holds the limbs of the
\* quotient found so far
RECURSIVE NLongDiv(_, _, _, _, _)
NLongDivNext(a, b, i, q, dr) ==
    IF dr[1] < 0 THEN << >>   \* never: a limb of the quotient is not negative
    ELSE NLongDiv(a, b, i - 1, dr[2], <<dr[1]>> \o q)

NLongDiv(a, b, i, r, q) ==
    IF i = 0 THEN NNorm(q)
    ELSE NLongDivNext(a, b, i, q, NQDigit(NNorm(<<a[i]>> \o r), b))

\* an div bn for an >= bn, the top limb of bn at least BASE / 2
NDivScaled(an, bn) ==
    NLongDiv(an, bn, Len(an) - Len(bn) + 1,
             SubSeq(an, Len(an) - Len(bn) + 2, Len(an)), << >>)

\* a div b for b # 0
NDiv(a, b) ==
    IF NCmp(a, b) < 0 THEN << >>
    ELSE IF IsPow10(b) THEN NDivPow10(a, Pow10Exp(b))
    ELSE NDivScaled(NMulSmall(a, BASE \div (b[Len(b)] + 1)),
                    NMulSmall(b, BASE \div (b[Len(b)] + 1)))

\* a mod b for b # 0
NMod(a, b) ==
    IF IsPow10(b) THEN NModPow10(a, Pow10Exp(b))
    ELSE NSub(a, NMul(NDiv(a, b), b))

(***************************************************************************)
(* Signed integers: [neg, mag], zero is never negative.                    *)
(***************************************************************************)

Signed(neg, mag) == [neg |-> neg /\ mag # << >>, mag |-> mag]

Zero == Signed(FALSE, << >>)
One == Signed(FALSE, <<1>>)

\* a native integer |n| < 2^31 as a signed integer
IFromInt(n) == IF n < 0 THEN Signed(TRUE, NFromInt(-n)) ELSE Signed(FALSE, NFromInt(n))

INeg(x) == Signed(~x.neg, x.mag)

ICmp(x, y) ==
    IF x.neg # y.neg THEN (IF x.neg THEN -1 ELSE 1)
    ELSE IF x.neg THEN NCmp(y.mag, x.mag) ELSE NCmp(x.mag, y.mag)

IAdd(x, y) ==
    IF x.neg = y.neg THEN Signed(x.neg, NAdd(x.mag, y.mag))
    ELSE IF NCmp(x.mag, y.mag) >= 0 THEN Signed(x.neg, NSub(x.mag, y.mag))
    ELSE Signed(y.neg, NSub(y.mag, x.mag))

ISub(x, y) == IAdd(x, INeg(y))

IMul(x, y) == Signed(x.neg # y.neg, NMul(x.mag, y.mag))

\* quotient truncated toward zero, remainder with the sign of the dividend
IDiv(x, y) == Signed(x.neg # y.neg, NDiv(x.mag, y.mag))

IRem(x, y) == Signed(x.neg, NMod(x.mag, y.mag))

MinusOne == Signed(TRUE, <<1>>)

(***************************************************************************)
(* The integer types of the program.  An operation that overflows panics   *)
(* when the build checks overflow and wraps otherwise; a division by zero  *)
(* or of the least value by -1 panics in every build.                      *)
(***************************************************************************)

\* 2^127 - 1 and -2^127
I128_MAX ==
    Signed(FALSE, NLit(<<170, 1411, 8346, 469, 2317, 3168, 7303, 7158, 8410, 5727>>))
I128_MIN ==
    Signed(TRUE, NLit(<<170, 1411, 8346, 469, 2317, 3168, 7303, 7158, 8410, 5728>>))
\* 2^128 - 1
U128_MAX == NLit(<<340, 2823, 6692, 938, 4634, 6337, 4607, 4317, 6821, 1455>>)
\* 2^255 - 1 and -2^255
I256_MAX ==
    Signed(FALSE, NLit(<<5, 7896, 446, 1865, 8097, 7117, 8549, 2504, 3439, 5392,
                         6634, 9923, 3282, 282, 197, 2879, 2003, 9565, 6481, 9967>>))
I256_MIN ==
    Signed(TRUE, NLit(<<5, 7896, 446, 1865, 8097, 7117, 8549, 2504, 3439, 5392,
                        6634, 9923, 3282, 282, 197, 2879, 2003, 9565, 6481, 9968>>))

Panic == [panic |-> TRUE]
IsPanic(v) == "panic" \in DOMAIN v

None == [none |-> TRUE]
Some(v) == [some |-> v]
IsSome(o) == "some" \in DOMAIN o

InI128(x) == ICmp(x, I128_MIN) >= 0 /\ ICmp(x, I128_MAX) <= 0
InI256(x) == ICmp(x, I256_MIN) >= 0 /\ ICmp(x, I256_MAX) <= 0

\* the two's-complement integer with the unsigned value u below 2 * half
IWrapSigned(u, half) ==
    IF NCmp(u, half) >= 0 THEN Signed(TRUE, NSub(NAdd(half, half), u))
    ELSE Signed(FALSE, u)

\* the integer whose magnitude is r modulo 2 * half, as an unsigned value
IWrapUnsigned(neg, r, half) ==
    IWrapSigned(IF neg /\ r # << >> THEN NSub(NAdd(half, half), r) ELSE r, half)

\* x reduced to a two's-complement integer of range [-half, half - 1]
IWrap(x, half) == IWrapUnsigned(x.neg, NMod(x.mag, NAdd(half, half)), half)

\* the outcome of an i128 +, - or * whose exact result is x
i128_overflowing(x) ==
    IF InI128(x) THEN x ELSE IF overflow_checks THEN Panic ELSE IWrap(x, I128_MIN.mag)

i128_add(x, y) ==
    IF IsPanic(x) \/ IsPanic(y) THEN Panic ELSE i128_overflowing(IAdd(x, y))

i128_sub(x, y) ==
    IF IsPanic(x) \/ IsPanic(y) THEN Panic ELSE i128_overflowing(ISub(x, y))

i128_mul(x, y) ==
    IF IsPanic(x) \/ IsPanic(y) THEN Panic ELSE i128_overflowing(IMul(x, y))

i128_neg(x) == IF IsPanic(x) THEN Panic ELSE i128_overflowing(INeg(x))

i128_div(x, y) ==
    IF IsPanic(x) \/ IsPanic(y) THEN Panic
    ELSE IF y = Zero \/ (x = I128_MIN /\ y = MinusOne) THEN Panic
    ELSE IDiv(x, y)

i128_rem(x, y) ==
    IF IsPanic(x) \/ IsPanic(y) THEN Panic
    ELSE IF y = Zero \/ (x = I128_MIN /\ y = MinusOne) THEN Panic
    ELSE IRem(x, y)

i128_checked_add(x, y) ==
    LET r == IAdd(x, y) IN IF InI128(r) THEN Some(r) ELSE None

i128_checked_sub(x, y) ==
    LET r == ISub(x, y) IN IF InI128(r) THEN Some(r) ELSE None

i128_checked_neg(x) ==
    LET r == INeg(x) IN IF InI128(r) THEN Some(r) ELSE None

\* x >> 127: all ones (-1) for a negative x, 0 otherwise
i128_shr127(x) == IF x.neg THEN MinusOne ELSE Zero

\* x ^ mask for the two masks x >> 127 yields: 0 keeps x, -1 flips every bit
i128_xor_mask(x, mask) == IF mask = Zero THEN x ELSE ISub(INeg(x), One)

i128_signum(x) == IF x.neg THEN MinusOne ELSE IF x = Zero THEN Zero ELSE One

u128_checked_mul(x, y) ==
    LET p == NMul(x, y) IN IF NCmp(p, U128_MAX) <= 0 THEN Some(p) ELSE None

u128_checked_add(x, y) ==
    LET s == NAdd(x, y) IN IF NCmp(s, U128_MAX) <= 0 THEN Some(s) ELSE None

u128_div(x, y) == NDiv(x, y)

u128_rem(x, y) == NMod(x, y)

\* i128::try_from(u128)
u128_try_into_i128(x) ==
    IF NCmp(x, I128_MAX.mag) <= 0 THEN Some(Signed(FALSE, x)) ELSE None

i256_from_i128(val) == val

\* faulty variant, rejected by ThmC3: the narrowing keeps a value out of range
i256_to_i128_unchecked(val) == Some(val)

i256_to_i128(val) == IF InI128(val) THEN Some(val) ELSE None

\* the operators of i256 check overflow in a build with debug assertions
i256_mul(x, y) ==
    LET p == IMul(x, y)
    IN IF InI256(p) THEN p ELSE IF debug_assertions THEN Panic ELSE IWrap(p, I256_MIN.mag)

i256_checked_div(x, y) ==
    IF y = Zero \/ (x = I256_MIN /\ y = MinusOne) THEN None
    ELSE Some(IDiv(x, y))

(***************************************************************************)
(* Constants.  A Dec19x19 is its repr, an i128.                            *)
(***************************************************************************)

FRAC_PLACES == 19

FRAC_SCALE_U128 == NPow10(FRAC_PLACES)
FRAC_SCALE_I128 == Signed(FALSE, FRAC_SCALE_U128)
FRAC_SCALE_I256 == i256_from_i128(FRAC_SCALE_I128)
FRAC_SCALE_I128_HALF == IDiv(FRAC_SCALE_I128, IFromInt(2))

POW10 == [i \in 0..38 |-> Signed(FALSE, NPow10(i))]

scale_for(d) ==
    LET dd == IF d < -19 THEN -19 ELSE IF d > 19 THEN 19 ELSE d
        idx == 19 - dd
    IN POW10[idx]

MAX == I128_MAX
MIN == I128_MIN
SMALLEST_STEP == One
\* 17_014_118_346_046_923_173 with 19 fractional zeros
MAX_INT ==
    Signed(FALSE, NLit(<<170, 1411, 8346, 469, 2317, 3000, 0, 0, 0, 0>>))
MIN_INT == INeg(MAX_INT)

is_min(self) == self = I128_MIN

signum_i128(self) == i128_signum(self)

(***************************************************************************)
(* Negation, absolute value, remainder, addition, subtraction.             *)
(***************************************************************************)

\* faulty variant, rejected by ThmC9: no case for MIN
neg_plain(self) == i128_neg(self)

neg(self) == IF self = MIN THEN MAX ELSE i128_neg(self)

abs(self) == IF is_min(self) THEN MAX ELSE Signed(FALSE, self.mag)

\* faulty variant, rejected by ThmC10: no case for MIN % -SMALLEST_STEP
rem_plain(self, other) == IF other = Zero THEN self ELSE i128_rem(self, other)

rem(self, other) ==
    IF other = Zero THEN self
    ELSE IF self = MIN /\ other = neg(SMALLEST_STEP) THEN Zero
    ELSE i128_rem(self, other)

unchecked_add(self, other) == i128_add(self, other)

checked_add(self, other) == i128_checked_add(self, other)

saturating_add(self, other) ==
    LET result == checked_add(self, other)
    IN IF IsSome(result) THEN result.some
       ELSE IF ICmp(signum_i128(self), Zero) >= 0 THEN MAX
       ELSE MIN

checked_sub(self, other) == i128_checked_sub(self, other)

\* faulty variant, rejected by ThmC4: a zero left operand saturates to MIN
saturating_sub_strict(self, other) ==
    LET result == checked_sub(self, other)
    IN IF IsSome(result) THEN result.some
       ELSE IF ICmp(signum_i128(self), Zero) > 0 THEN MAX
       ELSE MIN

saturating_sub(self, other) ==
    LET result == checked_sub(self, other)
    IN IF IsSome(result) THEN result.some
       ELSE IF ICmp(signum_i128(self), Zero) >= 0 THEN MAX
       ELSE MIN

(***************************************************************************)
(* Multiplication and division.                                            *)
(***************************************************************************)

\* x / FRAC_SCALE_U128 and x % FRAC_SCALE_U128
u128_div_scale(x) == NDivPow10(x, FRAC_PLACES)

u128_rem_scale(x) == NModPow10(x, FRAC_PLACES)

\* the end of both variants: the magnitude as an i128, then the sign
mul_repr(negative, mag) ==
    LET repr == u128_try_into_i128(mag.some)
    IN IF ~IsSome(mag) \/ ~IsSome(repr) THEN None
       ELSE IF negative THEN i128_checked_neg(repr.some) ELSE repr

\* steps 3 and 4 of checked_mul_no_opt on the integer and fractional parts
mul_no_opt_mag(ai, af, bi, bf) ==
    LET int == u128_checked_mul(ai, bi)
        t1 == u128_checked_mul(ai, bf)
        t2 == u128_checked_mul(bi, af)
        cross == u128_checked_add(t1.some, t2.some)
        frac_mul == u128_checked_mul(af, bf)
        frac == u128_div_scale(frac_mul.some)
        scaled_int == u128_checked_mul(int.some, FRAC_SCALE_U128)
        sum1 == u128_checked_add(scaled_int.some, cross.some)
    IN IF \/ ~IsSome(int) \/ ~IsSome(t1) \/ ~IsSome(t2) \/ ~IsSome(cross)
          \/ ~IsSome(frac_mul) \/ ~IsSome(scaled_int) \/ ~IsSome(sum1)
       THEN None
       ELSE u128_checked_add(sum1.some, frac)

checked_mul_no_opt(self, other) ==
    mul_repr((ICmp(self, Zero) < 0) # (ICmp(other, Zero) < 0),
             mul_no_opt_mag(u128_div_scale(self.mag), u128_rem_scale(self.mag),
                            u128_div_scale(other.mag), u128_rem_scale(other.mag)))

\* faulty variant, rejected by ThmC26: the fractional part of the left
\* operand is dropped
mul_opt_rhs_int_of_int(ua, bi) ==
    u128_checked_mul(NMul(u128_div_scale(ua), FRAC_SCALE_U128), bi)

\* the branch of checked_mul_opt for a right operand without fractional part
mul_opt_rhs_int(ua, bi) == u128_checked_mul(ua, bi)

\* faulty variant, rejected by ThmC1: the product of the fractional parts is
\* left out
mul_opt_rhs_frac_cross_only(ai, af, bf) == u128_checked_mul(ai, bf)

\* the branch for a right operand without integer part
mul_opt_rhs_frac(ai, af, bf) ==
    LET cross == u128_checked_mul(ai, bf)
        frac_mul == u128_checked_mul(af, bf)
        frac == u128_div_scale(frac_mul.some)
    IN IF ~IsSome(cross) \/ ~IsSome(frac_mul) THEN None
       ELSE u128_checked_add(cross.some, frac)

\* faulty variant, rejected by ThmC27: the product of the fractional parts is
\* left out of the last branch
mul_opt_general_no_frac(ai, af, bi, bf) ==
    LET int0 == u128_checked_mul(ai, bi)
        int == u128_checked_mul(int0.some, FRAC_SCALE_U128)
        t1 == u128_checked_mul(ai, bf)
        t2 == u128_checked_mul(bi, af)
        cross == u128_checked_add(t1.some, t2.some)
    IN IF ~IsSome(int0) \/ ~IsSome(int) \/ ~IsSome(t1) \/ ~IsSome(t2)
          \/ ~IsSome(cross)
       THEN None
       ELSE u128_checked_add(int.some, cross.some)

\* the last branch: the right operand has both parts
mul_opt_general(ai, af, bi, bf) ==
    LET int0 == u128_checked_mul(ai, bi)
        int == u128_checked_mul(int0.some, FRAC_SCALE_U128)
        t1 == u128_checked_mul(ai, bf)
        t2 == u128_checked_mul(bi, af)
        cross == u128_checked_add(t1.some, t2.some)
        frac_mul == u128_checked_mul(af, bf)
        frac == u128_div_scale(frac_mul.some)
        sum1 == u128_checked_add(int.some, cross.some)
    IN IF ~IsSome(int0) \/ ~IsSome(int) THEN None
       ELSE IF af = << >>
            THEN (IF ~IsSome(t1) THEN None ELSE u128_checked_add(int.some, t1.some))
            ELSE IF \/ ~IsSome(t1) \/ ~IsSome(t2) \/ ~IsSome(cross)
                    \/ ~IsSome(frac_mul) \/ ~IsSome(sum1)
                 THEN None
                 ELSE u128_checked_add(sum1.some, frac)

\* step 3 of checked_mul_opt: the magnitude of the product
mul_opt_mag(ua, bi, bf) ==
    IF bf = << >> THEN mul_opt_rhs_int(ua, bi)
    ELSE IF bi = << >>
    THEN mul_opt_rhs_frac(u128_div_scale(ua), u128_rem_scale(ua), bf)
    ELSE mul_opt_general(u128_div_scale(ua), u128_rem_scale(ua), bi, bf)

checked_mul_opt(self, other) ==
    mul_repr((ICmp(self, Zero) < 0) # (ICmp(other, Zero) < 0),
             mul_opt_mag(self.mag, u128_div_scale(other.mag),
                         u128_rem_scale(other.mag)))

\* CheckedMul::checked_mul: the feature mul_opt of the build picks the variant
checked_mul(self, other) ==
    IF mul_opt THEN checked_mul_opt(self, other)
    ELSE checked_mul_no_opt(self, other)

\* the outcome of a u128 * or + whose exact result is p: a panic in a build
\* that checks overflow, and the low 128 bits otherwise
u128_overflowing(p) ==
    IF NCmp(p, U128_MAX) <= 0 THEN Some(p)
    ELSE IF overflow_checks THEN Panic
    ELSE Some(NMod(p, NAdd(U128_MAX, <<1>>)))

u128_mul(x, y) ==
    IF IsPanic(x) \/ IsPanic(y) THEN Panic ELSE u128_overflowing(NMul(x.some, y.some))

u128_add(x, y) ==
    IF IsPanic(x) \/ IsPanic(y) THEN Panic ELSE u128_overflowing(NAdd(x.some, y.some))

\* step 4 of both unchecked variants: mag.try_into().expect("Overflow"), then
\* the sign
unchecked_mul_repr(negative, mag) ==
    IF IsPanic(mag) \/ ~IsSome(u128_try_into_i128(mag.some)) THEN Panic
    ELSE IF negative THEN INeg(Signed(FALSE, mag.some))
    ELSE Signed(FALSE, mag.some)

\* int * FRAC_SCALE_U128 + cross + frac
unchecked_mul_sum(int, cross, frac) ==
    u128_add(u128_add(u128_mul(int, Some(FRAC_SCALE_U128)), cross), frac)

\* af * bf / FRAC_SCALE_U128: the product of two fractional parts fits a u128
unchecked_mul_frac(af, bf) == Some(u128_div_scale(NMul(af, bf)))

unchecked_mul_no_opt(self, other) ==
    unchecked_mul_repr(
        (ICmp(self, Zero) < 0) # (ICmp(other, Zero) < 0),
        unchecked_mul_sum(
            u128_mul(Some(u128_div_scale(self.mag)), Some(u128_div_scale(other.mag))),
            u128_add(u128_mul(Some(u128_div_scale(self.mag)),
                              Some(u128_rem_scale(other.mag))),
                     u128_mul(Some(u128_div_scale(other.mag)),
                              Some(u128_rem_scale(self.mag)))),
            unchecked_mul_frac(u128_rem_scale(self.mag), u128_rem_scale(other.mag))))

\* step 3 of unchecked_mul_opt for a right operand with both parts
unchecked_mul_opt_general(ai, af, bi, bf) ==
    IF af = << >>
    THEN u128_add(u128_mul(u128_mul(Some(ai), Some(bi)), Some(FRAC_SCALE_U128)),
                  u128_mul(Some(ai), Some(bf)))
    ELSE unchecked_mul_sum(u128_mul(Some(ai), Some(bi)),
                           u128_add(u128_mul(Some(ai), Some(bf)),
                                    u128_mul(Some(bi), Some(af))),
                           unchecked_mul_frac(af, bf))

\* step 3 of unchecked_mul_opt: the magnitude of the product
unchecked_mul_opt_mag(ua, bi, bf) ==
    IF bf = << >> THEN u128_mul(Some(ua), Some(bi))
    ELSE IF bi = << >>
    THEN u128_add(u128_mul(Some(u128_div_scale(ua)), Some(bf)),
                  unchecked_mul_frac(u128_rem_scale(ua), bf))
    ELSE unchecked_mul_opt_general(u128_div_scale(ua), u128_rem_scale(ua), bi, bf)

unchecked_mul_opt(self, other) ==
    unchecked_mul_repr((ICmp(self, Zero) < 0) # (ICmp(other, Zero) < 0),
                       unchecked_mul_opt_mag(self.mag, u128_div_scale(other.mag),
                                             u128_rem_scale(other.mag)))

saturating_mul(self, other) ==
    LET r == checked_mul(self, other)
    IN IF IsSome(r) THEN r.some
       ELSE IF ICmp(i128_mul(signum_i128(self), signum_i128(other)), Zero) > 0
            THEN MAX
       ELSE MIN

checked_div(self, other) ==
    LET lhs_i256 == i256_from_i128(self)
        rhs_i256 == i256_from_i128(other)
        scaled_lhs == i256_mul(lhs_i256, FRAC_SCALE_I256)
        result == i256_checked_div(scaled_lhs, rhs_i256)
    IN IF ~IsSome(result) THEN None ELSE i256_to_i128(result.some)

\* faulty variant, rejected by ThmC5: a zero operand saturates to MIN
saturating_div_strict(self, other) ==
    LET r == checked_div(self, other)
    IN IF IsSome(r) THEN r.some
       ELSE IF ICmp(i128_mul(signum_i128(self), signum_i128(other)), Zero) > 0
            THEN MAX
       ELSE MIN

saturating_div(self, other) ==
    LET r == checked_div(self, other)
    IN IF IsSome(r) THEN r.some
       ELSE IF ICmp(i128_mul(signum_i128(self), signum_i128(other)), Zero) >= 0
            THEN MAX
       ELSE MIN

(***************************************************************************)
(* The rounding family.                                                    *)
(***************************************************************************)

trunc_impl(self, scale) ==
    LET int_part == i128_div(self, scale)
    IN i128_mul(int_part, scale)

trunc(self) == trunc_impl(self, FRAC_SCALE_I128)

trunc_to(self, d) == trunc_impl(self, scale_for(d))

\* faulty variant, rejected by ThmC8: the subtraction of the scale is unchecked
floor_impl_unchecked(self, scale) ==
    LET frac == i128_rem(self, scale)
        truncated == i128_mul(i128_div(self, scale), scale)
    IN IF frac # Zero /\ ICmp(self, Zero) < 0 THEN i128_sub(truncated, scale)
       ELSE truncated

floor_impl(self, scale) ==
    LET frac == i128_rem(self, scale)
        has_fraction == frac # Zero
        is_negative == ICmp(self, Zero) < 0
        subtract_one == has_fraction /\ is_negative
        truncated == i128_mul(i128_div(self, scale), scale)
        result == i128_checked_sub(truncated, scale)
    IN IF subtract_one
       THEN (IF IsPanic(truncated) THEN Panic
             ELSE IF IsSome(result) THEN result.some ELSE self)
       ELSE truncated

floor(self) == floor_impl(self, FRAC_SCALE_I128)

floor_to(self, d) == floor_impl(self, scale_for(d))

\* faulty variant, rejected by ThmC7: a positive fraction is dropped
ceil_impl_toward_zero(self, scale) == trunc_impl(self, scale)

ceil_impl(self, scale) ==
    LET frac == i128_rem(self, scale)
        has_fraction == frac # Zero
        is_positive == ICmp(self, Zero) > 0
        add_one == has_fraction /\ is_positive
        truncated == i128_mul(i128_div(self, scale), scale)
        result == i128_checked_add(truncated, scale)
    IN IF add_one
       THEN (IF IsPanic(truncated) THEN Panic
             ELSE IF IsSome(result) THEN result.some ELSE self)
       ELSE truncated

ceil(self) == ceil_impl(self, FRAC_SCALE_I128)

ceil_to(self, d) == ceil_impl(self, scale_for(d))

round_impl(self, scale, scale_half) ==
    LET sign == i128_shr127(self)
        bias == i128_sub(i128_xor_mask(scale_half, sign), sign)
        t == i128_checked_add(self, bias)
        rounded == IF IsSome(t) THEN i128_div(t.some, scale)
                   ELSE i128_div(self, scale)
    IN i128_mul(rounded, scale)

round(self) == round_impl(self, FRAC_SCALE_I128, FRAC_SCALE_I128_HALF)

round_to(self, d) ==
    LET scale == scale_for(d)
        scale_half == i128_div(scale, IFromInt(2))
    IN round_impl(self, scale, scale_half)

(***************************************************************************)
(* The decimal logarithm, rounded down.                                    *)
(***************************************************************************)

\* the number of decimal digits of |n|, by the tree of comparisons with the
\* powers of ten P1 .. P38
digit_count(n) ==
    LET lt(k) == NCmp(n.mag, NPow10(k)) < 0
    IN IF n = I128_MIN THEN 39
       ELSE IF lt(19)
       THEN (IF lt(9)
             THEN (IF lt(4)
                   THEN (IF lt(2) THEN (IF lt(1) THEN 1 ELSE 2)
                         ELSE (IF lt(3) THEN 3 ELSE 4))
                   ELSE (IF lt(7)
                         THEN (IF lt(5) THEN 5 ELSE IF lt(6) THEN 6 ELSE 7)
                         ELSE (IF lt(8) THEN 8 ELSE 9)))
             ELSE (IF lt(14)
                   THEN (IF lt(12)
                         THEN (IF lt(10) THEN 10 ELSE IF lt(11) THEN 11 ELSE 12)
                         ELSE (IF lt(13) THEN 13 ELSE 14))
                   ELSE (IF lt(17)
                         THEN (IF lt(15) THEN 15 ELSE IF lt(16) THEN 16 ELSE 17)
                         ELSE (IF lt(18) THEN 18 ELSE 19))))
       ELSE (IF lt(29)
             THEN (IF lt(24)
                   THEN (IF lt(22)
                         THEN (IF lt(20) THEN 20 ELSE IF lt(21) THEN 21 ELSE 22)
                         ELSE (IF lt(23) THEN 23 ELSE 24))
                   ELSE (IF lt(27)
                         THEN (IF lt(25) THEN 25 ELSE IF lt(26) THEN 26 ELSE 27)
                         ELSE (IF lt(28) THEN 28 ELSE 29)))
             ELSE (IF lt(34)
                   THEN (IF lt(32)
                         THEN (IF lt(30) THEN 30 ELSE IF lt(31) THEN 31 ELSE 32)
                         ELSE (IF lt(33) THEN 33 ELSE 34))
                   ELSE (IF lt(37)
                         THEN (IF lt(35) THEN 35 ELSE IF lt(36) THEN 36 ELSE 37)
                         ELSE (IF lt(38) THEN 38 ELSE 39))))

\* Dec19x19::from_i32: the integer value as a repr
from_i32(value) == i128_mul(IFromInt(value), FRAC_SCALE_I128)

\* faulty variant, rejected by ThmC14: the count of the digits is not shifted
\* by the 19 fractional places
unchecked_log10_floor_unscaled(self) ==
    IF ~(ICmp(self, Zero) > 0) THEN Panic
    ELSE from_i32(digit_count(self) - 1)

\* assert!(self.repr > 0) holds in every build
unchecked_log10_floor(self) ==
    IF ~(ICmp(self, Zero) > 0) THEN Panic
    ELSE from_i32(digit_count(self) - 20)

\* a panic of the callee is a panic of the call
checked_log10_floor(self) ==
    IF ICmp(self, Zero) >= 0
    THEN (LET r == unchecked_log10_floor(self) IN IF IsPanic(r) THEN Panic ELSE Some(r))
    ELSE None

(***************************************************************************)
(* The square root.  The first guess of the Newton-Raphson loop is made in *)
(* f64: a positive finite f64 is held as [m, e], the value m * 2^e with    *)
(* 2^52 <= m < 2^53, and every operation rounds its exact result to the    *)
(* nearest such value, a tie to the even m.                                *)
(***************************************************************************)

RECURSIVE NPow2(_)
NPow2(k) ==
    IF k < 13 THEN <<2 ^ k>>
    ELSE LET p == NPow2(k - 13) IN IF p = << >> THEN p ELSE NMulSmall(p, 8192)

\* the number of bits of n, given p = 2^k <= n
RECURSIVE BitLenFrom(_, _, _)
BitLenFrom(n, k, p) ==
    IF NCmp(n, NAdd(p, p)) < 0 THEN k + 1 ELSE BitLenFrom(n, k + 1, NAdd(p, p))

BitLen(n) == BitLenFrom(n, 13 * (Len(n) - 1), NPow2(13 * (Len(n) - 1)))

\* the floor of the square root of n, by Newton's iteration from x >= sqrt(n)
RECURSIVE NSqrtFrom(_, _)
NSqrtFrom(n, x) ==
    LET y == NDiv(NAdd(x, NDiv(n, x)), <<2>>)
    IN IF NCmp(y, x) >= 0 THEN x ELSE NSqrtFrom(n, y)

NSqrt(n) == NSqrtFrom(n, NPow2((BitLen(n) + 1) \div 2))

\* the f64 nearest to q * 2^sh + r, with 2^52 <= q < 2^53 and r < 2^sh the
\* bits cut off, sticky telling that more was lost below r
f64_nearest(q, r, sh, sticky, e) ==
    LET twice == NCmp(NAdd(r, r), NPow2(sh))
        up == twice > 0 \/ (twice = 0 /\ (sticky \/ q[1] % 2 = 1))
    IN IF ~up THEN [m |-> q, e |-> e + sh]
       ELSE IF NAdd(q, <<1>>) = NPow2(53) THEN [m |-> NPow2(52), e |-> e + sh + 1]
       ELSE [m |-> NAdd(q, <<1>>), e |-> e + sh]

\* the f64 nearest to n * 2^e for an integer n > 0 of len bits
f64_round_bits(n, len, sticky, e) ==
    IF len <= 53 THEN [m |-> NMul(n, NPow2(53 - len)), e |-> e - (53 - len)]
    ELSE f64_nearest(NDiv(n, NPow2(len - 53)), NMod(n, NPow2(len - 53)),
                     len - 53, sticky, e)

f64_round(n, sticky, e) == f64_round_bits(n, BitLen(n), sticky, e)

\* a / b in f64, from the quotient of the significands with 64 more bits
\* the f64 nearest to (n / d) * 2^e
f64_quotient(n, d, e) == f64_round(NDiv(n, d), NMod(n, d) # << >>, e)

\* a / b in f64, from the quotient of the significands with 64 more bits
f64_div(a, b) == f64_quotient(NMul(a.m, NPow2(64)), b.m, a.e - b.e - 64)

\* the f64 nearest to sqrt(n) * 2^e, r being the floor of the square root of n
f64_root(n, r, e) == f64_round(r, NMul(r, r) # n, e)

\* sqrt(n * 2^e) in f64 for an even e
f64_sqrt_even(n, e) == f64_root(n, NSqrt(n), e \div 2)

\* sqrt(a) in f64, from the significand shifted by 60 or 61 bits, whichever
\* leaves an even exponent
f64_sqrt(a) ==
    IF a.e % 2 = 0 THEN f64_sqrt_even(NMul(a.m, NPow2(60)), a.e - 60)
    ELSE f64_sqrt_even(NMul(a.m, NPow2(61)), a.e - 61)

f64_mul(a, b) == f64_round(NMul(a.m, b.m), FALSE, a.e + b.e)

\* a as i128: toward zero, and the greatest i128 for a value beyond it
f64_as_i128(a) ==
    LET v == IF a.e >= 0 THEN NMul(a.m, NPow2(a.e)) ELSE NDiv(a.m, NPow2(-a.e))
    IN IF NCmp(v, I128_MAX.mag) > 0 THEN I128_MAX ELSE Signed(FALSE, v)

\* x as f64 for x > 0
i128_as_f64(x) == f64_round(x.mag, FALSE, 0)

FRAC_SCALE_F64 == i128_as_f64(FRAC_SCALE_I128)

\* the initial guess of unchecked_sqrt, for self.repr > 0
sqrt_initial_guess(self) ==
    i256_from_i128(f64_as_i128(
        f64_mul(f64_sqrt(f64_div(i128_as_f64(self), FRAC_SCALE_F64)), FRAC_SCALE_F64)))

\* one turn of the loop: the guess leaves the loop once it is within one of
\* the guess before; a guess of zero is a division by zero
RECURSIVE sqrt_newton_raphson(_, _)
sqrt_next(xs, last, guess) ==
    IF NCmp(ISub(last, guess).mag, <<1>>) <= 0 THEN guess
    ELSE sqrt_newton_raphson(xs, guess)

sqrt_newton_raphson(xs, guess) ==
    IF guess = Zero THEN Panic
    ELSE sqrt_next(xs, guess, IDiv(IAdd(guess, IDiv(xs, guess)), IFromInt(2)))

\* faulty variant, rejected by ThmC15: the guess made in f64 is returned as
\* it is
unchecked_sqrt_guess_only(self) ==
    IF ~(ICmp(self, Zero) >= 0) THEN Panic
    ELSE IF self = Zero THEN Zero
    ELSE sqrt_initial_guess(self)

unchecked_sqrt(self) ==
    IF ~(ICmp(self, Zero) >= 0) THEN Panic
    ELSE IF self = Zero THEN Zero
    ELSE sqrt_newton_raphson(IMul(i256_from_i128(self), FRAC_SCALE_I256),
                             sqrt_initial_guess(self))

checked_sqrt(self) ==
    IF ICmp(self, Zero) < 0 THEN None
    ELSE (LET r == unchecked_sqrt(self) IN IF IsPanic(r) THEN Panic ELSE Some(r))

(***************************************************************************)
(* The natural logarithm.  Its loops work in i256; an operator of i256     *)
(* overflows there only for self.repr <= 0, which a build with debug       *)
(* assertions has turned down before.                                      *)
(***************************************************************************)

\* 0.693_147_180_559_945_309_4
LN_2 == Signed(FALSE, NLit(<<693, 1471, 8055, 9945, 3094>>))
\* sqrt(2) * 10^19 and 10^19 / sqrt(2)
SQRT2_UP == Signed(FALSE, NLit(<<1414, 2135, 6237, 3095, 488>>))
SQRT2_DN == Signed(FALSE, NLit(<<707, 1067, 8118, 6547, 5244>>))

\* the call does not return
Diverge == [diverge |-> TRUE]

\* the series has not ended within MaxTurns turns
Unsettled == [unsettled |-> TRUE]
MaxTurns == 40

\* the outcome of an i256 +, - or * whose exact result is x
i256_overflowing(x) ==
    IF InI256(x) THEN x ELSE IF debug_assertions THEN Panic ELSE IWrap(x, I256_MIN.mag)

\* step 6: the result as an i128, checked or cut to the low 128 bits
ln_repr(result) ==
    IF overflow_checks THEN (IF InI128(result) THEN result ELSE Panic)
    ELSE IWrap(result, I128_MIN.mag)

\* step 5: 2 * sum + ln(2) * exp
ln_result(sum, e) ==
    IF sum = Unsettled THEN Unsettled
    ELSE ln_repr(i256_overflowing(
             IAdd(i256_overflowing(IMul(sum, IFromInt(2))),
                  i256_overflowing(IMul(LN_2, IFromInt(e))))))

\* step 4, the loop of the atanh series: the next power of u, then its term
RECURSIVE ln_series(_, _, _, _, _)
ln_term(u, u_pow, sum, k, turns) ==
    IF IDiv(u_pow, IFromInt(k)) = Zero THEN sum
    ELSE ln_series(u, u_pow, i256_overflowing(IAdd(sum, IDiv(u_pow, IFromInt(k)))),
                   k, turns + 1)

ln_series(u, u_pow, sum, k, turns) ==
    IF turns > MaxTurns THEN Unsettled
    ELSE ln_term(u,
                 IDiv(i256_overflowing(
                          IMul(IDiv(i256_overflowing(IMul(u_pow, u)), FRAC_SCALE_I256),
                               u)),
                      FRAC_SCALE_I256),
                 sum, k + 2, turns)

\* step 3: u = (v - scale) * scale / (v + scale)
ln_u(num, den) == IDiv(i256_overflowing(IMul(num, FRAC_SCALE_I256)), den)

ln_atanh(u, e) == ln_result(ln_series(u, u, u, 1, 0), e)

\* step 2, second loop: while v < sqrt2_dn { v *= two; exp -= 1; }.  At
\* v = 0 the loop goes on until exp - 1 leaves the range of i128, after
\* 2^127 turns: a panic when the build checks overflow, and otherwise exp
\* wraps and the loop never ends.  The turns that cannot end the loop are
\* taken at once: a positive v below 2^62 stays below sqrt2_dn when doubled,
\* a negative v above -2^255 stays negative
RECURSIVE ln_double(_, _)
ln_double_by(v, e, n) ==
    IF n > 0 THEN ln_double(IMul(v, Signed(FALSE, NPow2(n))), e - n)
    ELSE ln_double(i256_overflowing(IMul(v, IFromInt(2))), e - 1)

ln_double(v, e) ==
    IF ICmp(v, SQRT2_DN) < 0
    THEN (IF v = Zero THEN (IF overflow_checks THEN Panic ELSE Diverge)
          ELSE ln_double_by(v, e, (IF v.neg THEN 255 ELSE 62) - BitLen(v.mag)))
    ELSE ln_atanh(ln_u(i256_overflowing(ISub(v, FRAC_SCALE_I256)),
                       i256_overflowing(IAdd(v, FRAC_SCALE_I256))), e)

\* step 2, first loop: while v > sqrt2_up { v /= two; exp += 1; }.  A v of
\* at least 2^65 stays above sqrt2_up when halved, and these turns are taken
\* at once
RECURSIVE ln_halve(_, _)
ln_halve_by(v, e, n) ==
    IF n > 0 THEN ln_halve(IDiv(v, Signed(FALSE, NPow2(n))), e + n)
    ELSE ln_halve(IDiv(v, IFromInt(2)), e + 1)

ln_halve(v, e) ==
    IF ICmp(v, SQRT2_UP) > 0 THEN ln_halve_by(v, e, BitLen(v.mag) - 65)
    ELSE ln_double(v, e)

\* debug_assert!(self.repr > 0) is compiled only with debug assertions
unchecked_ln(self) ==
    IF debug_assertions /\ ~(ICmp(self, Zero) > 0) THEN Panic
    ELSE ln_halve(i256_from_i128(self), 0)

\* (self.repr > 0).then(|| self.unchecked_ln())
checked_ln(self) ==
    IF ICmp(self, Zero) > 0
    THEN (LET r == unchecked_ln(self) IN IF IsPanic(r) THEN Panic ELSE Some(r))
    ELSE None

(***************************************************************************)
(* The power with an i32 exponent.                                         *)
(***************************************************************************)

\* the operator /: the quotient is narrowed with a check when the build
\* checks overflow and cut to its low 128 bits otherwise
unchecked_div(self, other) ==
    LET lhs_i256 == i256_from_i128(self)
        scaled_lhs == i256_mul(lhs_i256, FRAC_SCALE_I256)
    IN IF other = Zero THEN Panic
       ELSE IF overflow_checks
            THEN (LET result == i256_to_i128(IDiv(scaled_lhs, other))
                  IN IF IsSome(result) THEN result.some ELSE Panic)
            ELSE IWrap(IDiv(scaled_lhs, other), I128_MIN.mag)

RECURSIVE pow_while(_, _, _)

\* the macro step!() on the bit f2 of the exponent, then the rest of the loop
pow_step(result, base, e) ==
    IF e % 2 = 1
    THEN (LET r == checked_mul(result, base)
          IN IF IsSome(r) THEN pow_while(r.some, base, e \div 2) ELSE None)
    ELSE pow_while(result, base, e \div 2)

\* while e > 0 { base = base.checked_mul(base)?; step!(); }
pow_while(result, base, e) ==
    IF e > 0
    THEN (LET b == checked_mul(base, base)
          IN IF IsSome(b) THEN pow_step(result, b.some, e) ELSE None)
    ELSE Some(result)

\* |exp| is exp.unsigned_abs()
checked_pow(self, e) ==
    LET base == IF e >= 0 THEN self ELSE unchecked_div(POW10[19], self)
        ue == IF e >= 0 THEN e ELSE -e
    IN IF IsPanic(base) THEN Panic
       ELSE IF ue > 0 THEN pow_step(POW10[19], base, ue)
       ELSE pow_while(POW10[19], base, ue)

(***************************************************************************)
(* Conversions Dec19x19 -> X.                                              *)
(***************************************************************************)

\* Result
Ok(v) == [ok |-> v]
Err(e) == [err |-> e]
IsOk(r) == "ok" \in DOMAIN r

\* val as an unsigned integer of the given number of bits: the cast keeps
\* the low bits of the two's-complement form
as_unsigned(val, bits) ==
    Signed(FALSE, IF val.neg /\ NMod(val.mag, NPow2(bits)) # << >>
                  THEN NSub(NPow2(bits), NMod(val.mag, NPow2(bits)))
                  ELSE NMod(val.mag, NPow2(bits)))

\* From<Dec19x19> for u64, i128, u128
into_u64(self) == as_unsigned(IDiv(self, FRAC_SCALE_I128), 64)

into_i128(self) == IDiv(self, FRAC_SCALE_I128)

into_u128(self) == as_unsigned(IDiv(self, FRAC_SCALE_I128), 128)

\* $i::MIN and $i::MAX of an integer type of the given number of bits
int_MIN(signed, bits) == IF signed THEN Signed(TRUE, NPow2(bits - 1)) ELSE Zero

int_MAX(signed, bits) ==
    Signed(FALSE, NSub(NPow2(IF signed THEN bits - 1 ELSE bits), <<1>>))

\* TryFrom<Dec19x19> for $i
try_from_value(val, signed, bits) ==
    IF ICmp(val, int_MAX(signed, bits)) > 0 \/ ICmp(val, int_MIN(signed, bits)) < 0
    THEN Err("Overflow: Dec19x19 too large or too small.")
    ELSE Ok(val)

try_into_int(self, signed, bits) ==
    try_from_value(IDiv(self, FRAC_SCALE_I128), signed, bits)

\* the types that gen_try_from_fix128_for_x! is invoked with
IntTypes ==
    {[name |-> "try_into_i64", signed |-> TRUE, bits |-> 64],
     [name |-> "try_into_u32", signed |-> FALSE, bits |-> 32],
     [name |-> "try_into_i32", signed |-> TRUE, bits |-> 32],
     [name |-> "try_into_u16", signed |-> FALSE, bits |-> 16],
     [name |-> "try_into_i16", signed |-> TRUE, bits |-> 16],
     [name |-> "try_into_u8", signed |-> FALSE, bits |-> 8],
     [name |-> "try_into_i8", signed |-> TRUE, bits |-> 8]}

(***************************************************************************)
(* Parsing.  A string is the sequence of its characters.                   *)
(***************************************************************************)

DIGITS == <<"0", "1", "2", "3", "4", "5", "6", "7", "8", "9">>

DigitValue(c) == (CHOOSE d \in 1..10 : DIGITS[d] = c) - 1

\* the variants of ParseDec19x19Error
ParseIntError(inner) == [kind |-> "ParseIntError", inner |-> inner]
OutOfBounds == [kind |-> "OutOfBounds"]
TooPrecise == [kind |-> "TooPrecise"]
InvalidChar(char, pos) == [kind |-> "InvalidChar", char |-> char, pos |-> pos]

\* the position of the first c in s, Len(s) + 1 if there is none
Find(s, c) ==
    CHOOSE i \in 1..(Len(s) + 1) :
        /\ i = Len(s) + 1 \/ s[i] = c
        /\ \A j \in 1..(i - 1) : s[j] # c

\* s.split(c): the first piece, what follows it, and the number of pieces
SplitHead(s, c) == SubSeq(s, 1, Find(s, c) - 1)
SplitRest(s, c) == SubSeq(s, Find(s, c) + 1, Len(s))
SplitCount(s, c) == Cardinality({i \in 1..Len(s) : s[i] = c}) + 1

\* the number of leading, trailing characters of s that are in cs
LeadingIn(s, cs) ==
    CHOOSE k \in 0..Len(s) :
        /\ \A i \in 1..k : s[i] \in cs
        /\ k = Len(s) \/ s[k + 1] \notin cs

TrailingIn(s, cs) ==
    CHOOSE k \in 0..Len(s) :
        /\ \A i \in (Len(s) - k + 1)..Len(s) : s[i] \in cs
        /\ k = Len(s) \/ s[Len(s) - k] \notin cs

trim_start_matches(s, c) == SubSeq(s, LeadingIn(s, {c}) + 1, Len(s))

trim_end_matches(s, c) == SubSeq(s, 1, Len(s) - TrailingIn(s, {c}))

WhiteSpace == {" ", "\t", "\n", "\r"}

\* str::trim
trim(s) ==
    SubSeq(s, LeadingIn(s, WhiteSpace) + 1,
           IF LeadingIn(s, WhiteSpace) = Len(s) THEN Len(s)
           ELSE Len(s) - TrailingIn(s, WhiteSpace))

NotSeparator(c) == c \notin {"_", " "}

\* s.replace(['_', ' '], "")
replace(s) == SelectSeq(s, NotSeparator)

\* "0".repeat(n)
repeat_zero(n) == [i \in 1..n |-> "0"]

\* the magnitude written by the decimal digits ds
NFromDigits(ds) ==
    NNorm([i \in 1..((Len(ds) + 3) \div 4) |->
              LET lo == Len(ds) - 4 * (i - 1)
              IN DigitValue(ds[lo])
                   + (IF lo > 1 THEN 10 * DigitValue(ds[lo - 1]) ELSE 0)
                   + (IF lo > 2 THEN 100 * DigitValue(ds[lo - 2]) ELSE 0)
                   + (IF lo > 3 THEN 1000 * DigitValue(ds[lo - 3]) ELSE 0)] \o << >>)

\* the loop of i128::from_str over the characters after the sign: it stops
\* at the first character that is no digit, unless the digits before it have
\* left the range already
i128_from_digits(negative, ds, valid) ==
    IF ~InI128(Signed(negative, NFromDigits(SubSeq(ds, 1, valid))))
    THEN Err(ParseIntError(IF negative THEN "NegOverflow" ELSE "PosOverflow"))
    ELSE IF valid < Len(ds) THEN Err(ParseIntError("InvalidDigit"))
    ELSE Ok(Signed(negative, NFromDigits(ds)))

i128_from_signed(negative, ds) ==
    i128_from_digits(negative, ds, LeadingIn(ds, {DIGITS[d] : d \in 1..10}))

\* str::parse::<i128>: an optional sign, then at least one digit
i128_from_str(t) ==
    IF t = << >> THEN Err(ParseIntError("Empty"))
    ELSE IF t = <<"+">> \/ t = <<"-">> THEN Err(ParseIntError("InvalidDigit"))
    ELSE IF t[1] = "+" THEN i128_from_signed(FALSE, Tail(t))
    ELSE IF t[1] = "-" THEN i128_from_signed(TRUE, Tail(t))
    ELSE i128_from_signed(FALSE, t)

\* an i128 of at most four digits as a native integer
i128_as_usize(v) ==
    IF v.mag = << >> THEN 0 ELSE IF v.neg THEN 0 - v.mag[1] ELSE v.mag[1]

\* the end of shift_decimal: zeros are trimmed, an empty part becomes "0"
shift_trim(int_part, frac_part) ==
    <<IF trim_start_matches(int_part, "0") = << >> THEN <<"0">>
      ELSE trim_start_matches(int_part, "0"),
      IF trim_end_matches(frac_part, "0") = << >> THEN <<"0">>
      ELSE trim_end_matches(frac_part, "0")>>

shift_left(int_part, frac_part, e, move_count) ==
    shift_trim(int_part \o SubSeq(frac_part, 1, move_count) \o repeat_zero(e - move_count),
               SubSeq(frac_part, move_count + 1, Len(frac_part)))

shift_right(int_part, frac_part, e, move_count) ==
    shift_trim(SubSeq(int_part, 1, Len(int_part) - move_count),
               repeat_zero(e - move_count)
                   \o SubSeq(int_part, Len(int_part) - move_count + 1, Len(int_part))
                   \o frac_part)

\* faulty variant, rejected by ThmC19: the exponent is not applied
shift_decimal_unshifted(int_part, frac_part, e) == shift_trim(int_part, frac_part)

\* int_part.len() counts every character of the integer part, a sign too
shift_decimal(int_part, frac_part, e) ==
    IF e > 0
    THEN shift_left(int_part, frac_part, e,
                    IF e < Len(frac_part) THEN e ELSE Len(frac_part))
    ELSE IF e < 0
    THEN shift_right(int_part, frac_part, -e,
                     IF -e < Len(int_part) THEN -e ELSE Len(int_part))
    ELSE shift_trim(int_part, frac_part)

\* scaled = int_part.checked_mul(FRAC_SCALE_I128), then repr = scaled -/+
\* frac_part, checked
parse_repr(is_negative, scaled, frac_part) ==
    IF ~InI128(scaled) THEN Err(OutOfBounds)
    ELSE IF ~InI128(IF is_negative THEN ISub(scaled, frac_part)
                   ELSE IAdd(scaled, frac_part))
    THEN Err(OutOfBounds)
    ELSE Ok(IF is_negative THEN ISub(scaled, frac_part) ELSE IAdd(scaled, frac_part))

\* the fractional part, padded with zeros to FRAC_PLACES characters
parse_frac(is_negative, int_part, frac_part) ==
    IF ~IsOk(frac_part) THEN frac_part
    ELSE parse_repr(is_negative, IMul(int_part, FRAC_SCALE_I128), frac_part.ok)

\* the integer part is parsed before the length of the fraction is looked at
parse_parts(is_negative, int_part, frac_part_str2) ==
    IF ~IsOk(int_part) THEN int_part
    ELSE IF Len(frac_part_str2) > FRAC_PLACES THEN Err(TooPrecise)
    ELSE parse_frac(is_negative, int_part.ok,
                    i128_from_str(frac_part_str2
                                      \o repeat_zero(FRAC_PLACES - Len(frac_part_str2))))

parse_shifted(is_negative, shifted) ==
    parse_parts(is_negative, i128_from_str(shifted[1]), shifted[2])

\* e_parts[0].split('.')
parse_mantissa(is_negative, mantissa, e) ==
    IF SplitCount(mantissa, ".") > 2
    THEN Err(InvalidChar(".", Len(SplitHead(mantissa, "."))
                                  + Len(SplitHead(SplitRest(mantissa, "."), ".")) + 1))
    ELSE parse_shifted(is_negative,
                       shift_decimal(SplitHead(mantissa, "."),
                                     SplitRest(mantissa, "."), e))

\* exp: the second piece of the split at 'e' as an i128, 0 without one
parse_exp(is_negative, mantissa, e) ==
    IF ~IsOk(e) THEN e ELSE parse_mantissa(is_negative, mantissa, i128_as_usize(e.ok))

parse_trimmed(trimmed) ==
    IF SplitCount(trimmed, "e") > 2
    THEN Err(InvalidChar("e", Len(SplitHead(trimmed, "e"))
                                  + Len(SplitHead(SplitRest(trimmed, "e"), "e")) + 1))
    ELSE parse_exp(trimmed # << >> /\ trimmed[1] = "-",
                   SplitHead(trimmed, "e"),
                   IF SplitCount(trimmed, "e") = 2
                   THEN i128_from_str(SplitRest(trimmed, "e")) ELSE Ok(Zero))

parse_dec19x19_internal(s) == parse_trimmed(trim(replace(s)))

\* FromStr::from_str: the repr of the parser is the value
from_str(s) == parse_dec19x19_internal(s)

\* TryFrom<&str>::try_from
try_from(s) == from_str(s)

(***************************************************************************)
(* Formatting.                                                             *)
(***************************************************************************)

\* Display::fmt: the Formatter built from the format specification, the
\* separator being '_' with the alternate flag
Display(alternate, precision, width, align, fill, sign_plus) ==
    [separator |-> IF alternate THEN Some("_") ELSE None,
     precision |-> precision,
     width |-> width,
     align |-> align,
     fill |-> fill,
     sign_plus |-> sign_plus]

\* i128::to_string of a magnitude
to_string(a) ==
    IF a = << >> THEN <<"0">>
    ELSE trim_start_matches(
             [j \in 1..(4 * Len(a)) |->
                 DIGITS[((a[Len(a) - ((j - 1) \div 4)] \div (10 ^ (3 - ((j - 1) % 4)))) % 10)
                            + 1]]
                 \o << >>, "0")

\* fill.repeat(n)
repeat(fill, n) == [i \in 1..n |-> fill]

\* frac_str: 19 digits without the trailing zeros, filled up with zeros to
\* the precision
format_frac_str(digits19, precision) ==
    IF IsSome(precision) /\ Len(trim_end_matches(digits19, "0")) < precision.some
    THEN trim_end_matches(digits19, "0")
             \o repeat("0", precision.some - Len(trim_end_matches(digits19, "0")))
    ELSE trim_end_matches(digits19, "0")

\* faulty variant, rejected by ThmC23: the sign is taken from the integer part
format_sign_of_int(this, f) ==
    IF IDiv(this, FRAC_SCALE_I128).neg THEN <<"-">>
    ELSE IF f.sign_plus THEN <<"+">> ELSE << >>

format_sign(this, f) ==
    IF this.neg THEN <<"-">> ELSE IF f.sign_plus THEN <<"+">> ELSE << >>

\* the loop over int_str from its i-th character (counted from 0)
RECURSIVE format_int(_, _, _)
format_int(int_str, separator, i) ==
    IF i >= Len(int_str) THEN << >>
    ELSE (IF i # 0 /\ Len(int_str) - i > 0 /\ (Len(int_str) - i) % 3 = 0
             /\ IsSome(separator)
          THEN <<separator.some>> ELSE << >>)
             \o <<int_str[i + 1]>> \o format_int(int_str, separator, i + 1)

\* the loop over frac_str from its i-th character (counted from 0)
RECURSIVE format_frac(_, _, _)
format_frac(frac_str, separator, i) ==
    IF i >= Len(frac_str) THEN << >>
    ELSE (IF i > 0 /\ i % 3 = 0 /\ IsSome(separator)
          THEN <<separator.some>> ELSE << >>)
             \o <<frac_str[i + 1]>> \o format_frac(frac_str, separator, i + 1)

\* the padding to the width: match f.align
format_padding(result, f, padding) ==
    IF f.align = Some("Right") THEN result \o repeat(f.fill, padding)
    ELSE IF f.align = Some("Center")
    THEN repeat(f.fill, padding \div 2) \o result
             \o repeat(f.fill, padding - (padding \div 2))
    ELSE repeat(f.fill, padding) \o result

format_width(result, f) ==
    IF IsSome(f.width)
    THEN format_padding(result, f,
                        IF f.width.some > Len(result) THEN f.width.some - Len(result)
                        ELSE 0)
    ELSE result

format_result(this, f, int_str, frac_str) ==
    format_width(format_sign(this, f)
                     \o format_int(int_str, f.separator, 0)
                     \o (IF frac_str # << >>
                         THEN <<".">> \o format_frac(frac_str, f.separator, 0)
                         ELSE << >>),
                 f)

format_this(this, f) ==
    IF IsPanic(this) THEN Panic
    ELSE format_result(
             this, f, to_string(IDiv(this, FRAC_SCALE_I128).mag),
             format_frac_str(
                 repeat("0", FRAC_PLACES
                                 - Len(to_string(IRem(this, FRAC_SCALE_I128).mag)))
                     \o to_string(IRem(this, FRAC_SCALE_I128).mag),
                 f.precision))

\* this: self, rounded to the precision if there is one
format_round(self, f) ==
    IF IsSome(f.precision)
    THEN round_to(self, IF f.precision.some < 19 THEN f.precision.some ELSE 19)
    ELSE self

\* Format::format
format(self, f) == format_this(format_round(self, f), f)

(***************************************************************************)
(* The inputs.  Every i128 is the repr of a Dec19x19 (from_repr is total), *)
(* so the operands are drawn from the values where the operations change   *)
(* behaviour: zero, the ends of the range, the extreme integers, the       *)
(* square root of the range, ties of the rounding, each with its           *)
(* neighbours up to Near steps away, and a few ordinary values.            *)
(***************************************************************************)

Near == 1
MaxDigits == 20

\* n * 10^e as a repr, so Dec(22, 18) is 2.2
Dec(n, e) == IMul(IFromInt(n), POW10[e])

Around(c) == {x \in {IAdd(c, IFromInt(k)) : k \in (-Near)..Near} : InI128(x)}

\* the greatest repr whose square, as a product of two Dec19x19, is in range
SQRT_MAX == Signed(FALSE, NLit(<<4, 1248, 1737, 1235, 5948, 5879, 322, 1175>>))

\* 2^126: twice it is the first value out of range
TWO_126 ==
    Signed(FALSE, NLit(<<85, 705, 9173, 234, 6158, 6584, 3651, 8579, 4205, 2864>>))

Ordinary ==
    {Dec(5, 18), Dec(1, 19), Dec(-1, 19), Dec(2, 19), Dec(-22, 18),
     TWO_126, INeg(TWO_126), INeg(SQRT_MAX)}

Samples ==
    Around(Zero) \cup Around(MAX) \cup Around(MIN) \cup Around(SQRT_MAX)
        \cup Ordinary

\* the extreme integers, and ties and near-ties of the rounding at several
\* scales
RoundSamples ==
    Samples \cup Around(MAX_INT) \cup Around(MIN_INT)
        \cup Around(Dec(35, 18)) \cup Around(Dec(-35, 18))
        \cup Around(Dec(5, 37)) \cup Around(Dec(15, 37)) \cup Around(Dec(-15, 37))
        \cup {Dec(34, 18), Dec(-34, 18), Dec(35, 19), Dec(-36, 17), Dec(147, 18),
              ISub(MAX_INT, Dec(3, 18)), ISub(Dec(3, 18), MAX_INT)}

(***************************************************************************)
(* The state: the operands of one call (lhs, rhs, a third operand addend,  *)
(* the digits, the exponent, the string, the formatter), the build, the    *)
(* operation called and what it returned.  The build is the profile of     *)
(* cargo: dev checks overflow and debug assertions, release neither, and   *)
(* each can be set on its own.                                             *)
(***************************************************************************)

Init ==
    /\ lhs \in Samples
    /\ rhs \in Samples
    /\ digits = 0
    /\ exp = 0
    /\ str = << >>
    /\ formatter = Display(FALSE, None, None, None, " ", FALSE)
    /\ addend = Zero
    /\ overflow_checks \in BOOLEAN
    /\ debug_assertions = overflow_checks
    /\ mul_opt \in BOOLEAN
    /\ op = "init"
    /\ out = Zero

Call(name, result) ==
    /\ op = "init"
    /\ op' = name
    /\ out' = result
    /\ UNCHANGED <<lhs, rhs, addend, digits, exp, str, formatter, overflow_checks,
                   debug_assertions, mul_opt>>

CheckedMulNoOpt == Call("checked_mul_no_opt", checked_mul_no_opt(lhs, rhs))

CheckedMulOpt == Call("checked_mul_opt", checked_mul_opt(lhs, rhs))

UncheckedMulNoOpt == Call("unchecked_mul_no_opt", unchecked_mul_no_opt(lhs, rhs))

UncheckedMulOpt == Call("unchecked_mul_opt", unchecked_mul_opt(lhs, rhs))

SaturatingMul == Call("saturating_mul", saturating_mul(lhs, rhs))

CheckedDiv == Call("checked_div", checked_div(lhs, rhs))

SaturatingDiv == Call("saturating_div", saturating_div(lhs, rhs))

SaturatingAdd == Call("saturating_add", saturating_add(lhs, rhs))

SaturatingSub == Call("saturating_sub", saturating_sub(lhs, rhs))

Rem == Call("rem", rem(lhs, rhs))

Next ==
    \/ CheckedMulNoOpt
    \/ CheckedMulOpt
    \/ UncheckedMulNoOpt
    \/ UncheckedMulOpt
    \/ SaturatingMul
    \/ CheckedDiv
    \/ SaturatingDiv
    \/ SaturatingAdd
    \/ SaturatingSub
    \/ Rem

Spec == Init /\ [][Next]_vars

(***************************************************************************)
(* The operations of one operand: rounding, negation, absolute value.      *)
(* The forms without a digits argument are called with digits = 0.         *)
(***************************************************************************)

InitUnary ==
    /\ lhs \in RoundSamples
    /\ rhs = Zero
    /\ digits \in (-MaxDigits)..MaxDigits
    /\ exp = 0
    /\ str = << >>
    /\ formatter = Display(FALSE, None, None, None, " ", FALSE)
    /\ addend = Zero
    /\ overflow_checks \in BOOLEAN
    /\ debug_assertions = overflow_checks
    /\ mul_opt = TRUE
    /\ op = "init"
    /\ out = Zero

TruncTo == Call("trunc_to", trunc_to(lhs, digits))

FloorTo == Call("floor_to", floor_to(lhs, digits))

CeilTo == Call("ceil_to", ceil_to(lhs, digits))

RoundTo == Call("round_to", round_to(lhs, digits))

Trunc == digits = 0 /\ Call("trunc", trunc(lhs))

Floor == digits = 0 /\ Call("floor", floor(lhs))

Ceil == digits = 0 /\ Call("ceil", ceil(lhs))

Round == digits = 0 /\ Call("round", round(lhs))

Neg == digits = 0 /\ Call("neg", neg(lhs))

Abs == digits = 0 /\ Call("abs", abs(lhs))

NextUnary ==
    \/ TruncTo
    \/ FloorTo
    \/ CeilTo
    \/ RoundTo
    \/ Trunc
    \/ Floor
    \/ Ceil
    \/ Round
    \/ Neg
    \/ Abs

SpecUnary == InitUnary /\ [][NextUnary]_vars

(***************************************************************************)
(* Logarithms, square root and power.  The operations of one operand are   *)
(* called with exp = 0.                                                    *)
(***************************************************************************)

\* the powers of ten with their neighbours, where the count of digits
\* changes, and the values of the tests of log10_floor
MathSamples ==
    UNION {Around(POW10[k]) : k \in 0..38}
        \cup Around(Zero) \cup {MAX, MIN, IAdd(MIN, One)}
        \cup {Dec(101, 17), Dec(999, 17), Dec(117, 17), Dec(9, 18), Dec(11, 17),
              Dec(9, 17), Dec(-1, 19)}
        \cup {IAdd(POW10[19], IFromInt(2)), ISub(POW10[19], IFromInt(2)),
              Dec(2, 19), Dec(25, 17)}

\* bases and exponents of the tests of pow, the bases at the ends of the
\* range, and the integers whose square or cube is the last one in range
PowBases ==
    {Zero, One, MinusOne, MAX, MIN, MAX_INT, MIN_INT,
     Dec(1, 19), Dec(-1, 19), Dec(2, 19), Dec(-2, 19), Dec(3, 19), Dec(10, 19),
     Dec(20, 19), Dec(5, 18), Dec(11, 18), Dec(15, 18), Dec(-15, 18),
     IAdd(Dec(41248, 24), Dec(17371, 19)), IAdd(Dec(41248, 24), Dec(17372, 19)),
     SQRT_MAX, IAdd(SQRT_MAX, One), Dec(2571993, 19), Dec(-2571993, 19),
     Dec(2571994, 19)}

PowExps == {0, 1, 2, 3, 4, 5, 16, 39, 40, 63, 64, 2147483647, -1, -2, -3}

InitMath ==
    /\ overflow_checks \in BOOLEAN
    /\ \/ /\ lhs \in MathSamples
          /\ exp = 0
          /\ debug_assertions \in BOOLEAN
          /\ mul_opt = TRUE
       \/ /\ lhs \in PowBases
          /\ exp \in PowExps
          /\ debug_assertions = overflow_checks
          /\ mul_opt \in BOOLEAN
    /\ rhs = Zero
    /\ digits = 0
    /\ str = << >>
    /\ formatter = Display(FALSE, None, None, None, " ", FALSE)
    /\ addend = Zero
    /\ op = "init"
    /\ out = Zero

DigitCount == exp = 0 /\ Call("digit_count", digit_count(lhs))

UncheckedLog10Floor ==
    exp = 0 /\ Call("unchecked_log10_floor", unchecked_log10_floor(lhs))

CheckedLog10Floor ==
    exp = 0 /\ Call("checked_log10_floor", checked_log10_floor(lhs))

CheckedSqrt == exp = 0 /\ Call("checked_sqrt", checked_sqrt(lhs))

\* a call whose series does not end within MaxTurns turns is left out
CallSettled(name, result) == op = "init" /\ result # Unsettled /\ Call(name, result)

UncheckedLn == exp = 0 /\ CallSettled("unchecked_ln", unchecked_ln(lhs))

CheckedLn == exp = 0 /\ Call("checked_ln", checked_ln(lhs))

CheckedPow == Call("checked_pow", checked_pow(lhs, exp))

NextMath ==
    \/ UncheckedLn
    \/ CheckedLn
    \/ CheckedSqrt
    \/ DigitCount
    \/ UncheckedLog10Floor
    \/ CheckedLog10Floor
    \/ CheckedPow

SpecMath == InitMath /\ [][NextMath]_vars

(***************************************************************************)
(* The loops of checked_sqrt and checked_ln, one turn at a time.  op is    *)
(* the place in the call and out holds its local variables until the call  *)
(* returns; then op is the name of the function and out what it returned.  *)
(***************************************************************************)

\* faulty variant, rejected by ThmC29: the loop is left only when the guess
\* repeats
sqrt_settled_equal(last, guess) == last = guess

\* (last - guess).wrapping_abs() <= i256::ONE
sqrt_settled(last, guess) == NCmp(ISub(last, guess).mag, <<1>>) <= 0

\* guess = (guess + (x * scale) / guess) / I256_TWO
sqrt_turn(x, guess) ==
    IDiv(IAdd(guess, IDiv(IMul(x, FRAC_SCALE_I256), guess)), IFromInt(2))

\* faulty variant, rejected by ThmC30: v is halved while it is above 2.0
ln_above_two(v) == ICmp(v, Dec(2, 19)) > 0

\* the test of the first loop: v > sqrt2_up
ln_above(v) == ICmp(v, SQRT2_UP) > 0

\* the test of the second loop: v < sqrt2_dn
ln_below(v) == ICmp(v, SQRT2_DN) < 0

\* u_pow = (u_pow * u / scale) * u / scale
ln_u_pow(u_pow, u) ==
    IDiv(i256_overflowing(
             IMul(IDiv(i256_overflowing(IMul(u_pow, u)), FRAC_SCALE_I256), u)),
         FRAC_SCALE_I256)

\* the values around which the loops change their number of turns
LoopSamples ==
    Around(Zero) \cup Around(POW10[19]) \cup Around(SQRT2_UP) \cup Around(SQRT2_DN)
        \cup Around(IAdd(SQRT2_UP, SQRT2_UP))
        \cup {IFromInt(2), IFromInt(3), IAdd(POW10[19], IFromInt(2)),
              ISub(POW10[19], IFromInt(2)), Dec(1, 18), Dec(25, 17), Dec(5, 18),
              Dec(2, 19), Dec(1, 20), Dec(1, 21), POW10[9], POW10[30], POW10[38],
              Signed(FALSE, NLit(<<271, 8281, 8284, 5904, 5239>>)),
              MAX, MAX_INT, MIN, Dec(-1, 19)}

InitLoops ==
    /\ lhs \in LoopSamples
    /\ rhs = Zero
    /\ addend = Zero
    /\ digits = 0
    /\ exp = 0
    /\ str = << >>
    /\ formatter = Display(FALSE, None, None, None, " ", FALSE)
    /\ overflow_checks \in BOOLEAN
    /\ debug_assertions = overflow_checks
    /\ mul_opt = TRUE
    /\ op = "init"
    /\ out = Zero

\* op and out change, the operand and the build stay
Step(place, locals) ==
    /\ op' = place
    /\ out' = locals
    /\ UNCHANGED <<lhs, rhs, addend, digits, exp, str, formatter, overflow_checks,
                   debug_assertions, mul_opt>>

\* checked_sqrt up to the loop
SqrtEnter ==
    /\ op = "init"
    /\ IF ICmp(lhs, Zero) < 0 THEN Step("checked_sqrt", None)
       ELSE IF lhs = Zero THEN Step("checked_sqrt", Some(Zero))
       ELSE Step("sqrt_loop", [guess |-> sqrt_initial_guess(lhs)])

\* one turn of the Newton-Raphson loop
SqrtLoop ==
    /\ op = "sqrt_loop"
    /\ IF out.guess = Zero THEN Step("checked_sqrt", Panic)
       ELSE IF sqrt_settled(out.guess, sqrt_turn(i256_from_i128(lhs), out.guess))
       THEN Step("checked_sqrt", Some(sqrt_turn(i256_from_i128(lhs), out.guess)))
       ELSE Step("sqrt_loop", [guess |-> sqrt_turn(i256_from_i128(lhs), out.guess)])

\* checked_ln up to the first loop
LnEnter ==
    /\ op = "init"
    /\ IF ICmp(lhs, Zero) > 0
       THEN Step("ln_halve", [v |-> i256_from_i128(lhs), exp |-> 0])
       ELSE Step("checked_ln", None)

\* one turn of while v > sqrt2_up, or the test that ends it
LnHalve ==
    /\ op = "ln_halve"
    /\ IF ln_above(out.v)
       THEN Step("ln_halve", [v |-> IDiv(out.v, IFromInt(2)), exp |-> out.exp + 1])
       ELSE Step("ln_double", out)

\* one turn of while v < sqrt2_dn, or the test that ends it and step 3
LnDouble ==
    /\ op = "ln_double"
    /\ IF ln_below(out.v)
       THEN Step("ln_double", [v |-> i256_overflowing(IMul(out.v, IFromInt(2))),
                               exp |-> out.exp - 1])
       ELSE LET u == ln_u(i256_overflowing(ISub(out.v, FRAC_SCALE_I256)),
                          i256_overflowing(IAdd(out.v, FRAC_SCALE_I256)))
            IN Step("ln_series", [v |-> out.v, exp |-> out.exp, u |-> u,
                                  u_pow |-> u, sum |-> u, k |-> 1])

\* one turn of the loop of the series; steps 5 and 6 once the term is zero
LnSeries ==
    /\ op = "ln_series"
    /\ LET u_pow == ln_u_pow(out.u_pow, out.u)
           term == IDiv(u_pow, IFromInt(out.k + 2))
       IN IF term = Zero
          THEN Step("checked_ln", Some(ln_result(out.sum, out.exp)))
          ELSE Step("ln_series",
                    [out EXCEPT !.u_pow = u_pow, !.k = out.k + 2,
                                !.sum = i256_overflowing(IAdd(out.sum, term))])

NextLoops ==
    \/ SqrtEnter
    \/ SqrtLoop
    \/ LnEnter
    \/ LnHalve
    \/ LnDouble
    \/ LnSeries

\* the call has come to its end
Returned == op \in {"checked_sqrt", "checked_ln"}

\* A call that has been made goes on until it returns: weak fairness,
\* WF_vars(NextLoops), with ENABLED <<NextLoops>>_vars written as what it is
\* here, ~Returned: every place before the return has a next step, and
\* every step changes op or out.
SpecLoops ==
    InitLoops /\ [][NextLoops]_vars /\ ([]<>Returned \/ []<><<NextLoops>>_vars)

(***************************************************************************)
(* Parsing.  An input is written from a signed integer lhs, its number     *)
(* digits of fractional digits and the exponent exp: [-] digits [. digits] *)
(* [e [-] digits].  The exponents are small, as shift_decimal builds       *)
(* strings of that many characters.                                        *)
(***************************************************************************)

\* the decimal digits of a magnitude, "0" for zero
NChars(a) == to_string(a)

\* the digits ds with the point before the last f of them
WrittenMantissa(ds, f) ==
    SubSeq(ds, 1, Len(ds) - f)
        \o (IF f > 0 THEN <<".">> \o SubSeq(ds, Len(ds) - f + 1, Len(ds)) ELSE << >>)

WrittenExp(k) ==
    IF k = 0 THEN << >>
    ELSE <<"e">> \o (IF k < 0 THEN <<"-">> \o NChars(NFromInt(-k)) ELSE NChars(NFromInt(k)))

Written(m, f, k) ==
    (IF m.neg THEN <<"-">> ELSE << >>)
        \o WrittenMantissa(repeat_zero(f + 1 - Len(NChars(m.mag))) \o NChars(m.mag), f)
        \o WrittenExp(k)

\* 2^127 and twenty fractional digits: 2^127 * 10^20 + 1
TWO_127_AND_FRAC ==
    Signed(FALSE, NLit(<<170, 1411, 8346, 469, 2317, 3168, 7303, 7158, 8410, 5728,
                         0, 0, 0, 0, 1>>))

\* the mantissas of the tests, the ends of the range and one step beyond them
Mantissas ==
    {Zero, One, IFromInt(5), IFromInt(100), IFromInt(125), IFromInt(987),
     Dec(123456, 0), POW10[15], MAX, IAdd(MAX, One), IAdd(MAX, IFromInt(2)),
     TWO_127_AND_FRAC}

FracLens == {0, 1, 3, 19, 20}

ParseExps == {0, -1, -2, -3, 1, 2, 16, 17, 21, 40, -19, -20, -34}

\* inputs of the tests with a sign of the exponent, separators and spaces
ParseTests ==
    {[s |-> <<"9", "8", "7", "e", "+", "1", "7">>, m |-> IFromInt(987), f |-> 0, k |-> 17],
     [s |-> <<"9", "8", "7", "e", "+", "0">>, m |-> IFromInt(987), f |-> 0, k |-> 0],
     [s |-> <<"1", "_", "0", "0", "0", "_", "0", "0", "0", "_", "0", "0", "0", "_",
              "0", "0", "0", "_", "0", "0", "0", "e", "-", "3", "4">>,
      m |-> POW10[15], f |-> 0, k |-> -34],
     [s |-> <<"0", ".", "0", "0", "0", "_", "0", "0", "0", "_", "0", "0", "0", "_",
              "0", "0", "0", "_", "0", "0", "0", "e", "3", "4">>,
      m |-> Zero, f |-> 15, k |-> 34],
     [s |-> <<" ", "-", "1", " ", "0", "0", "0", ".", "5", " ">>,
      m |-> Dec(-10005, 0), f |-> 1, k |-> 0]}

InitParse ==
    /\ \/ /\ lhs \in Mantissas \cup {INeg(m) : m \in Mantissas}
          /\ digits \in FracLens
          /\ exp \in ParseExps
          /\ str = Written(lhs, digits, exp)
       \/ \E t \in ParseTests :
              lhs = t.m /\ digits = t.f /\ exp = t.k /\ str = t.s
    /\ rhs = Zero
    /\ formatter = Display(FALSE, None, None, None, " ", FALSE)
    /\ addend = Zero
    /\ overflow_checks \in BOOLEAN
    /\ debug_assertions = overflow_checks
    /\ mul_opt = TRUE
    /\ op = "init"
    /\ out = Zero

FromStr == Call("from_str", from_str(str))

\* shift_decimal on the parts of the mantissa of str
ShiftDecimal ==
    Call("shift_decimal",
         shift_decimal(SplitHead(SplitHead(str, "e"), "."),
                       SplitRest(SplitHead(str, "e"), "."), exp))

\* inputs whose mantissa has no digit
EmptyMantissas ==
    {<< >>, <<".">>, <<"e", "5">>, <<"_">>, <<" ">>, <<"-">>, <<"-", "e", "2">>,
     <<".", "e", "-", "1">>}

\* s with the exponent marker in upper case
UpperE(s) == [i \in 1..Len(s) |-> IF s[i] = "e" THEN "E" ELSE s[i]] \o << >>

\* try_from on a string without mantissa digits, or on the written input
\* with its exponent marker in upper case
TryFrom ==
    \E s \in EmptyMantissas \cup {UpperE(str)} :
        /\ op = "init"
        /\ op' = "try_from"
        /\ str' = s
        /\ out' = try_from(s)
        /\ UNCHANGED <<lhs, rhs, addend, digits, exp, formatter, overflow_checks,
                       debug_assertions, mul_opt>>

NextParse ==
    \/ FromStr
    \/ ShiftDecimal
    \/ TryFrom

SpecParse == InitParse /\ [][NextParse]_vars

(***************************************************************************)
(* Formatting and parsing back.  One value is formatted under one format   *)
(* specification, and the string is then parsed, as the validator does     *)
(* with the strings of its series.                                         *)
(***************************************************************************)

FormatSamples ==
    {Zero, One, MinusOne, MAX, MIN, MAX_INT, MIN_INT, Dec(5, 18), Dec(-5, 18),
     Dec(1, 19), Dec(-1, 19), Dec(1234, 19), Dec(-1234567, 16), Dec(123456, 19),
     Dec(123456789, 14), Dec(-9999995, 15), Dec(1, 16), Dec(-25, 17)}

Precisions == {None, Some(0), Some(3), Some(21)}

Widths == {None, Some(3), Some(10), Some(11), Some(45)}

Alignments == {None, Some("Left"), Some("Right"), Some("Center")}

InitFormat ==
    /\ lhs \in FormatSamples
    /\ formatter \in {Display(alternate, precision, width, align, fill, sign_plus) :
                         alternate \in BOOLEAN, precision \in Precisions,
                         width \in Widths, align \in Alignments,
                         fill \in {" ", "*"}, sign_plus \in BOOLEAN}
    /\ rhs = Zero
    /\ addend = Zero
    /\ digits = 0
    /\ exp = 0
    /\ str = << >>
    /\ overflow_checks \in BOOLEAN
    /\ debug_assertions = overflow_checks
    /\ mul_opt = TRUE
    /\ op = "init"
    /\ out = Zero

Format == Call("format", format(lhs, formatter))

\* from_str on the string that format returned
FromStrFormatted ==
    /\ op = "format"
    /\ ~IsPanic(format_round(lhs, formatter))
    /\ op' = "from_str"
    /\ str' = out
    /\ out' = from_str(out)
    /\ UNCHANGED <<lhs, rhs, addend, digits, exp, formatter, overflow_checks,
                   debug_assertions, mul_opt>>

NextFormat ==
    \/ Format
    \/ FromStrFormatted

SpecFormat == InitFormat /\ [][NextFormat]_vars

(***************************************************************************)
(* Conversions to the integer types.                                       *)
(***************************************************************************)

\* 2^k as a Dec19x19
TwoPow(k) == Signed(FALSE, NMul(NPow2(k), FRAC_SCALE_I128.mag))

\* the values whose integer part is at an end of an integer type, just
\* inside it or just beyond it
ConvertSamples ==
    UNION {Around(TwoPow(k)) \cup Around(ISub(TwoPow(k), Dec(1, 19)))
               \cup Around(INeg(TwoPow(k))) \cup Around(INeg(IAdd(TwoPow(k), Dec(1, 19))))
           : k \in {7, 8, 15, 16, 31, 32, 63}}
        \cup Around(Zero) \cup Around(Dec(1, 19)) \cup Around(Dec(-1, 19))
        \cup {MAX, MIN, MAX_INT, MIN_INT, Dec(-5, 18), Dec(25, 18), Dec(-25, 18)}

InitConvert ==
    /\ lhs \in ConvertSamples
    /\ rhs = Zero
    /\ digits = 0
    /\ exp = 0
    /\ str = << >>
    /\ formatter = Display(FALSE, None, None, None, " ", FALSE)
    /\ addend = Zero
    /\ overflow_checks \in BOOLEAN
    /\ debug_assertions = overflow_checks
    /\ mul_opt = TRUE
    /\ op = "init"
    /\ out = Zero

IntoU64 == Call("into_u64", into_u64(lhs))
IntoI128 == Call("into_i128", into_i128(lhs))
IntoU128 == Call("into_u128", into_u128(lhs))
\* the conversion to one of the narrower types
TryInto == \E t \in IntTypes : Call(t.name, try_into_int(lhs, t.signed, t.bits))

NextConvert ==
    \/ IntoU64
    \/ IntoI128
    \/ IntoU128
    \/ TryInto

SpecConvert == InitConvert /\ [][NextConvert]_vars

(***************************************************************************)
(* Expressions of three operands: x * (y + z) and x * y + x * z with the   *)
(* checked operations, x = lhs, y = rhs, z = addend.                       *)
(***************************************************************************)

\* x.checked_mul(y.checked_add(z)?)
mul_of_sum(x, y, z) ==
    LET sum == checked_add(y, z)
    IN IF IsSome(sum) THEN checked_mul(x, sum.some) ELSE None

\* x.checked_mul(y)?.checked_add(x.checked_mul(z)?)
sum_of_muls(x, y, z) ==
    LET xy == checked_mul(x, y)
        xz == checked_mul(x, z)
    IN IF IsSome(xy) /\ IsSome(xz) THEN checked_add(xy.some, xz.some) ELSE None

\* 0.333_333_333_333_333_333_3
THIRD == Signed(FALSE, NLit(<<333, 3333, 3333, 3333, 3333>>))

\* steps, fractions, integers and the ends of [-10^18, 10^18]
AlgebraSamples ==
    {Zero, One, MinusOne, IFromInt(3), Dec(5, 18), Dec(-5, 18), Dec(1, 19),
     Dec(-15, 18), THIRD, Dec(7, 27), Dec(1, 37), Dec(-1, 37)}

InitAlgebra ==
    /\ lhs \in AlgebraSamples
    /\ rhs \in AlgebraSamples
    /\ addend \in AlgebraSamples
    /\ digits = 0
    /\ exp = 0
    /\ str = << >>
    /\ formatter = Display(FALSE, None, None, None, " ", FALSE)
    /\ overflow_checks \in BOOLEAN
    /\ debug_assertions = overflow_checks
    /\ mul_opt \in BOOLEAN
    /\ op = "init"
    /\ out = Zero

MulOfSum == Call("mul_of_sum", mul_of_sum(lhs, rhs, addend))

SumOfMuls == Call("sum_of_muls", sum_of_muls(lhs, rhs, addend))

CheckedMul == Call("checked_mul", checked_mul(lhs, rhs))

CheckedAdd == Call("checked_add", checked_add(lhs, rhs))

NextAlgebra ==
    \/ MulOfSum
    \/ SumOfMuls
    \/ CheckedMul
    \/ CheckedAdd

SpecAlgebra == InitAlgebra /\ [][NextAlgebra]_vars

(***************************************************************************)
(* Reference arithmetic for the properties, stated on exact integers and   *)
(* without the program's decomposition into integer and fractional parts.  *)
(***************************************************************************)

\* q is n / d truncated toward zero, for d # 0: |q| * |d| <= |n| < (|q| + 1) * |d|
\* and a nonzero q has the sign of n * d
IsTruncQuot(q, n, d) ==
    /\ NCmp(NMul(q.mag, d.mag), n.mag) <= 0
    /\ NCmp(n.mag, NMul(NAdd(q.mag, <<1>>), d.mag)) < 0
    /\ (q # Zero => q.neg = (n.neg # d.neg))

\* n / d truncated toward zero lies in [-2^127, 2^127 - 1], for d # 0
QuotFits(n, d) ==
    LET limit == IF n.neg # d.neg THEN NAdd(I128_MIN.mag, <<1>>) ELSE I128_MIN.mag
    IN NCmp(n.mag, NMul(limit, d.mag)) < 0

\* x clamped to [MIN.repr, MAX.repr]
Clamp(x) == IF ICmp(x, MIN) < 0 THEN MIN ELSE IF ICmp(x, MAX) > 0 THEN MAX ELSE x

\* the exponent k of the scale 10^k that the digits argument d selects
ScaleExp(d) == IF d < -19 THEN 38 ELSE IF d > 19 THEN 0 ELSE 19 - d

\* the greatest multiple of 10^k that is <= x
FloorMultiple(x, k) ==
    LET q == NDivPow10(x.mag, k)
        f == NModPow10(x.mag, k)
    IN IF x.neg /\ f # << >> THEN Signed(TRUE, NMul(NAdd(q, <<1>>), NPow10(k)))
       ELSE Signed(x.neg, NMul(q, NPow10(k)))

\* the least multiple of 10^k that is >= x
CeilMultiple(x, k) ==
    LET q == NDivPow10(x.mag, k)
        f == NModPow10(x.mag, k)
    IN IF ~x.neg /\ f # << >> THEN Signed(FALSE, NMul(NAdd(q, <<1>>), NPow10(k)))
       ELSE Signed(x.neg, NMul(q, NPow10(k)))

\* the multiple of 10^k toward zero from x
TruncMultiple(x, k) == Signed(x.neg, NMul(NDivPow10(x.mag, k), NPow10(k)))

\* the multiple of 10^k nearest to x, a tie going away from zero
RoundHalfAway(x, k) ==
    LET q == NDivPow10(x.mag, k)
        f == NModPow10(x.mag, k)
        up == NCmp(NAdd(f, f), NPow10(k)) >= 0
    IN Signed(x.neg, NMul(IF up THEN NAdd(q, <<1>>) ELSE q, NPow10(k)))

\* x.repr is a multiple of 10^19
IsInteger(x) == NModPow10(x.mag, FRAC_PLACES) = << >>

SameStrictSign(a, b) ==
    \/ ICmp(a, Zero) < 0 /\ ICmp(b, Zero) < 0
    \/ ICmp(a, Zero) > 0 /\ ICmp(b, Zero) > 0

SignsMatchOrZero(a, b) ==
    \/ a = Zero
    \/ b = Zero
    \/ (ICmp(a, Zero) < 0) = (ICmp(b, Zero) < 0)

IsCheckedMul == op \in {"checked_mul_no_opt", "checked_mul_opt"}

(***************************************************************************)
(* Multiplication and division.                                            *)
(***************************************************************************)

\* C1: whenever checked_mul_opt or checked_mul_no_opt returns Some(r), r.repr
\* is the exact product a.repr * b.repr divided by 10^19 and truncated toward
\* zero.
ThmC1 ==
    (IsCheckedMul /\ IsSome(out))
        => IsTruncQuot(out.some, IMul(lhs, rhs), FRAC_SCALE_I128)

\* a negative product that loses digits in the truncation, from checked_mul_opt
WitC1 ==
    /\ op = "checked_mul_opt"
    /\ IsSome(out)
    /\ out.some.neg
    /\ NModPow10(NMul(lhs.mag, rhs.mag), FRAC_PLACES) # << >>

\* C2: checked_mul returns None exactly when the truncated exact product is
\* outside [-2^127, 2^127 - 1], and Some for every pair whose truncated
\* product is inside, both ends included.
CexC2 ==
    IsCheckedMul => ((out = None) <=> ~QuotFits(IMul(lhs, rhs), FRAC_SCALE_I128))

\* C3: checked_div returns None exactly when b.repr = 0 or the quotient
\* a.repr * 10^19 / b.repr truncated toward zero is outside
\* [-2^127, 2^127 - 1], and Some of that quotient otherwise; MAX / -1 is
\* MIN + SMALLEST_STEP and (MIN + SMALLEST_STEP) / -1 is MAX.
ThmC3 ==
    op = "checked_div" =>
        /\ IF rhs = Zero \/ ~QuotFits(IMul(lhs, FRAC_SCALE_I128), rhs)
           THEN out = None
           ELSE /\ IsSome(out)
                /\ IsTruncQuot(out.some, IMul(lhs, FRAC_SCALE_I128), rhs)
        /\ (lhs = MAX /\ rhs = Dec(-1, 19)) => out = Some(IAdd(MIN, SMALLEST_STEP))
        /\ (lhs = IAdd(MIN, SMALLEST_STEP) /\ rhs = Dec(-1, 19)) => out = Some(MAX)

\* MAX / -1 has been computed
WitC3 ==
    /\ op = "checked_div"
    /\ lhs = MAX
    /\ rhs = Dec(-1, 19)
    /\ IsSome(out)

(***************************************************************************)
(* Saturating arithmetic.                                                  *)
(***************************************************************************)

\* C4: saturating_add is the exact sum and saturating_sub the exact
\* difference of the reprs, clamped to [MIN.repr, MAX.repr].
ThmC4 ==
    /\ op = "saturating_add" => out = Clamp(IAdd(lhs, rhs))
    /\ op = "saturating_sub" => out = Clamp(ISub(lhs, rhs))

\* 0 - MIN is above the range: a zero left operand saturates to MAX
WitC4 ==
    /\ op = "saturating_sub"
    /\ lhs = Zero
    /\ rhs = MIN
    /\ out = MAX

\* C5: saturating_mul and saturating_div never fail; saturating_mul is
\* checked_mul when that is Some, else MAX if both operands have the same
\* strict sign and MIN otherwise; saturating_div is checked_div when that is
\* Some, else MAX if the signs match or either operand is zero and MIN if the
\* signs differ.
ThmC5 ==
    /\ op \in {"saturating_mul", "saturating_div"} => ~IsPanic(out)
    /\ op = "saturating_mul" =>
           out = IF IsSome(checked_mul(lhs, rhs)) THEN checked_mul(lhs, rhs).some
                 ELSE IF SameStrictSign(lhs, rhs) THEN MAX ELSE MIN
    /\ op = "saturating_div" =>
           out = IF IsSome(checked_div(lhs, rhs)) THEN checked_div(lhs, rhs).some
                 ELSE IF SignsMatchOrZero(lhs, rhs) THEN MAX ELSE MIN

\* a negative value divided by zero saturates to MAX
WitC5 ==
    /\ op = "saturating_div"
    /\ ICmp(lhs, Zero) < 0
    /\ rhs = Zero
    /\ out = MAX

(***************************************************************************)
(* The rounding family.                                                    *)
(***************************************************************************)

\* C6: round_to(x, d) is x.repr rounded half away from zero to a multiple of
\* s = scale_for(d) whenever that multiple is in [-2^127, 2^127 - 1], and
\* trunc_to(x, d) only when it is not; round(x) is the case s = 10^19.
CexC6 ==
    op \in {"round_to", "round"} =>
        LET r == RoundHalfAway(lhs, ScaleExp(digits))
        IN IF InI128(r) THEN out = r ELSE out = TruncMultiple(lhs, ScaleExp(digits))

\* C7: floor(x) <= x <= ceil(x), and floor(x) = ceil(x) exactly when x.repr
\* is a multiple of 10^19.
ThmC7 ==
    /\ op = "floor" =>
           /\ ~IsPanic(out)
           /\ ICmp(out, lhs) <= 0
           /\ (out = ceil(lhs)) <=> IsInteger(lhs)
    /\ op = "ceil" =>
           /\ ~IsPanic(out)
           /\ ICmp(lhs, out) <= 0
           /\ (floor(lhs) = out) <=> IsInteger(lhs)

\* ceil of a positive value with a fractional part, next to MAX_INT
WitC7 ==
    /\ op = "ceil"
    /\ lhs = ISub(MAX_INT, Dec(3, 18))
    /\ out = MAX_INT

\* C8: floor_to, ceil_to and trunc_to never panic or wrap; with s = 10^(19 - d)
\* for d clamped to [-19, 19], floor_to is the greatest multiple of s <= x.repr
\* when that is >= -2^127 and x otherwise, ceil_to the least multiple of s
\* >= x.repr when that is <= 2^127 - 1 and x otherwise, and trunc_to is
\* (x.repr / s) * s, which is x for d >= 19.
ThmC8 ==
    /\ op \in {"floor_to", "ceil_to", "trunc_to"} => ~IsPanic(out)
    /\ op = "floor_to" =>
           out = IF InI128(FloorMultiple(lhs, ScaleExp(digits)))
                 THEN FloorMultiple(lhs, ScaleExp(digits)) ELSE lhs
    /\ op = "ceil_to" =>
           out = IF InI128(CeilMultiple(lhs, ScaleExp(digits)))
                 THEN CeilMultiple(lhs, ScaleExp(digits)) ELSE lhs
    /\ op = "trunc_to" =>
           /\ out = TruncMultiple(lhs, ScaleExp(digits))
           /\ digits >= 19 => out = lhs

\* the greatest multiple of 10^38 below MIN + SMALLEST_STEP is out of range
WitC8 ==
    /\ op = "floor_to"
    /\ digits = -19
    /\ lhs = IAdd(MIN, SMALLEST_STEP)
    /\ out = lhs

(***************************************************************************)
(* Negation, absolute value, remainder.                                    *)
(***************************************************************************)

\* C9: for x # MIN, neg(x).repr = -x.repr and x + neg(x) = 0 without
\* overflow; neg(MIN) = MAX and abs(MIN) = MAX; abs(x).repr >= 0; neg and abs
\* never panic.
ThmC9 ==
    /\ op = "neg" =>
           /\ ~IsPanic(out)
           /\ IF lhs = MIN THEN out = MAX
              ELSE /\ out = INeg(lhs)
                   /\ checked_add(lhs, out) = Some(Zero)
                   /\ unchecked_add(lhs, out) = Zero
    /\ op = "abs" =>
           /\ ~IsPanic(out)
           /\ ICmp(out, Zero) >= 0
           /\ lhs = MIN => out = MAX

\* MIN has been negated
WitC9 ==
    /\ op = "neg"
    /\ lhs = MIN
    /\ out = MAX

\* C10: rem never panics or overflows; rem(a, 0) = a; rem(MIN, -SMALLEST_STEP)
\* = 0; for every other b # 0 the result r has |r.repr| < |b.repr|, is zero or
\* has the sign of a, and a.repr - r.repr is a multiple of b.repr.
ThmC10 ==
    op = "rem" =>
        /\ ~IsPanic(out)
        /\ rhs = Zero => out = lhs
        /\ (lhs = MIN /\ rhs = INeg(SMALLEST_STEP)) => out = Zero
        /\ rhs # Zero =>
               /\ NCmp(out.mag, rhs.mag) < 0
               /\ out = Zero \/ out.neg = lhs.neg
               /\ IMul(IDiv(ISub(lhs, out), rhs), rhs) = ISub(lhs, out)

\* the remainder of MIN by -SMALLEST_STEP has been taken
WitC10 ==
    /\ op = "rem"
    /\ lhs = MIN
    /\ rhs = INeg(SMALLEST_STEP)
    /\ out = Zero

(***************************************************************************)
(* Logarithms, square root and power.                                      *)
(***************************************************************************)

\* the d in 1..39 with 10^(d-1) <= |n| < 10^d, 1 for n = 0
DigitsOf(n) ==
    CHOOSE d \in 1..39 :
        /\ d = 1 \/ NCmp(NPow10(d - 1), n.mag) <= 0
        /\ d = 39 \/ NCmp(n.mag, NPow10(d)) < 0

\* C11: checked_log10_floor never panics; it returns None for every x with
\* x.repr <= 0, zero included, and Some for every x with x.repr > 0.
CexC11 ==
    op = "checked_log10_floor" =>
        IF ICmp(lhs, Zero) <= 0 THEN out = None ELSE IsSome(out)

\* the integer b of an integer-valued repr x = b * 10^19
IntPart(x) == Signed(x.neg, NDivPow10(x.mag, FRAC_PLACES))

\* b^n by n multiplications, left alone once it is beyond MAX_INT: from there
\* on the power of a b with |b| >= 2 stays beyond it
RECURSIVE IntPow(_, _)
IntPow(b, n) ==
    IF n = 0 THEN One
    ELSE LET r == IntPow(b, n - 1)
         IN IF NCmp(r.mag, MAX_INT.mag) > 0 THEN r ELSE IMul(b, r)

\* what checked_pow owes for an integer-valued x and n >= 0: the exact power
\* when it lies in [MIN_INT, MAX_INT]; from |b| = 2 on, the power leaves the
\* range before n = 64
PowRef(x, n) ==
    LET b == IntPart(x)
    IN IF n = 0 THEN Some(POW10[19])
       ELSE IF b = Zero THEN Some(Zero)
       ELSE IF b.mag = <<1>>
       THEN Some(IF b.neg /\ n % 2 = 1 THEN Dec(-1, 19) ELSE POW10[19])
       ELSE IF n > 64 THEN None
       ELSE (LET p == IMul(IntPow(b, n), FRAC_SCALE_I128)
             IN IF ICmp(MIN_INT, p) <= 0 /\ ICmp(p, MAX_INT) <= 0 THEN Some(p)
                ELSE None)

\* C12: checked_pow never panics; for base 0 and a negative exponent it
\* returns None, and it returns None whenever a multiplication overflows, so
\* whenever the exact power of an integer base is out of range.
CexC12 ==
    op = "checked_pow" =>
        /\ ~IsPanic(out)
        /\ (lhs = Zero /\ exp < 0) => out = None
        /\ (exp >= 0 /\ IsInteger(lhs) /\ PowRef(lhs, exp) = None) => out = None

\* C13: for an integer-valued base b and e >= 0, checked_pow(b, e) is Some of
\* exactly b^e when b^e is in [MIN_INT, MAX_INT] and None otherwise; for every
\* base checked_pow(b, 0) = 1 and checked_pow(b, 1) = b.
CexC13 ==
    op = "checked_pow" =>
        /\ (exp >= 0 /\ IsInteger(lhs)) => out = PowRef(lhs, exp)
        /\ exp = 0 => out = Some(POW10[19])
        /\ exp = 1 => out = Some(lhs)

\* C14: for x.repr > 0, log10_floor(x) is the integer k, as k * 10^19, with
\* 10^k <= x.repr / 10^19 < 10^(k + 1), and k is digit_count(x.repr) - 20;
\* digit_count(n) is the number of decimal digits of |n|: 1 for 0, 39 for
\* i128::MIN, otherwise the d in 1..39 with 10^(d-1) <= |n| < 10^d.
ThmC14 ==
    /\ op = "digit_count" => out = DigitsOf(lhs)
    /\ (op = "unchecked_log10_floor" /\ ICmp(lhs, Zero) > 0) =>
           \E k \in -19..19 :
               /\ out = IMul(IFromInt(k), FRAC_SCALE_I128)
               /\ NCmp(NPow10(k + 19), lhs.mag) <= 0
               /\ NCmp(lhs.mag, NPow10(k + 20)) < 0
               /\ k = DigitsOf(lhs) - 20

\* the logarithm of 0.09 is -2
WitC14 ==
    /\ op = "unchecked_log10_floor"
    /\ lhs = Dec(9, 17)
    /\ out = Dec(-2, 19)

\* |(r * r).repr - x.repr| for the product of the library
SquareError(r, x) == ISub(checked_mul(r, r).some, x).mag

\* C15 as stated: for every x >= 0, sqrt(x) * sqrt(x) differs from x by at
\* most one SMALLEST_STEP; sqrt(0) = 0 and checked_sqrt is None for x < 0.
CexC15 ==
    op = "checked_sqrt" =>
        /\ ICmp(lhs, Zero) >= 0 =>
               /\ IsSome(out)
               /\ IsSome(checked_mul(out.some, out.some))
               /\ NCmp(SquareError(out.some, lhs), <<1>>) <= 0
        /\ lhs = Zero => out = Some(Zero)
        /\ ICmp(lhs, Zero) < 0 => out = None

\* C15, amended: for every x >= 0 and r = sqrt(x), r * r differs from x by at
\* most floor(2 * r.repr / 10^19) + 1 steps, which is one step for every
\* x <= 0.25; sqrt(0) = 0 and checked_sqrt is None for x < 0.
ThmC15 ==
    op = "checked_sqrt" =>
        /\ ICmp(lhs, Zero) >= 0 =>
               /\ IsSome(out)
               /\ IsSome(checked_mul(out.some, out.some))
               /\ NCmp(SquareError(out.some, lhs),
                       NAdd(NDivPow10(NAdd(out.some.mag, out.some.mag), FRAC_PLACES),
                            <<1>>)) <= 0
               /\ ICmp(lhs, Dec(25, 17)) <= 0 =>
                      NCmp(SquareError(out.some, lhs), <<1>>) <= 0
        /\ lhs = Zero => out = Some(Zero)
        /\ ICmp(lhs, Zero) < 0 => out = None

\* the square of sqrt(10) is 7 steps below 10
WitC15 ==
    /\ op = "checked_sqrt"
    /\ lhs = Dec(1, 20)
    /\ IsSome(out)
    /\ SquareError(out.some, lhs) = <<7>>

\* C16: for every x with x.repr <= 0, unchecked_ln(x) ends in a panic, neither
\* returning a value nor looping forever, and checked_ln(x) is None for
\* exactly those x.
CexC16 ==
    /\ op = "unchecked_ln" /\ ICmp(lhs, Zero) <= 0 => IsPanic(out)
    /\ op = "checked_ln" => (out = None <=> ICmp(lhs, Zero) <= 0)

\* C17: unchecked_mul agrees with checked_mul wherever that returns Some, and
\* panics wherever it returns None: no wrapped intermediate is returned.
CexC17 ==
    /\ op = "unchecked_mul_no_opt" =>
           IF IsSome(checked_mul_no_opt(lhs, rhs))
           THEN out = checked_mul_no_opt(lhs, rhs).some
           ELSE IsPanic(out)
    /\ op = "unchecked_mul_opt" =>
           IF IsSome(checked_mul_opt(lhs, rhs))
           THEN out = checked_mul_opt(lhs, rhs).some
           ELSE IsPanic(out)

\* the exponent of ten that takes the written integer lhs to its repr
ReprExp == FRAC_PLACES + exp - digits

\* the written value has at most 19 fractional digits once its trailing
\* zeros are dropped
FitsPlaces == ReprExp >= 0 \/ NModPow10(lhs.mag, -ReprExp) = << >>

\* the written value times 10^19, cut to an integer
WrittenRepr ==
    Signed(lhs.neg, IF ReprExp >= 0 THEN NMul(lhs.mag, NPow10(ReprExp))
                    ELSE NDivPow10(lhs.mag, -ReprExp))

\* the integer part of the written magnitude
WrittenInt ==
    IF exp >= digits THEN NMul(lhs.mag, NPow10(exp - digits))
    ELSE NDivPow10(lhs.mag, digits - exp)

\* C18: an input with a leading minus sign, at most 19 fractional digits after
\* the exponent is applied and a value not below MIN parses to the negated
\* value times 10^19.
CexC18 ==
    op = "from_str" /\ lhs.neg /\ FitsPlaces /\ InI128(WrittenRepr)
        => out = Ok(WrittenRepr)

CexC20 ==
    op = "from_str" /\ FitsPlaces /\ ~InI128(WrittenRepr) => out = Err(OutOfBounds)

\* the characters of s before its exponent marker hold no digit
NoMantissaDigits(s) ==
    \A i \in 1..Len(SplitHead(s, "e")) : s[i] \notin {DIGITS[d] : d \in 1..10}

\* C21: an input whose mantissa has no digit at all is rejected with the
\* ParseIntError error.
CexC21 ==
    op = "try_from" /\ NoMantissaDigits(str)
        => ~IsOk(out) /\ out.err.kind = "ParseIntError"

\* s with the exponent marker in lower case
LowerE(s) == [i \in 1..Len(s) |-> IF s[i] = "E" THEN "e" ELSE s[i]] \o << >>

\* C22: an input with the exponent marker E parses as the same input with the
\* marker e does.
CexC22 ==
    op = "try_from" /\ (\E i \in 1..Len(str) : str[i] = "E")
        => out = from_str(LowerE(str))

\* the format specification of "{}" and "{:#}": no precision, no width, no
\* plus sign
DefaultConfig ==
    formatter.precision = None /\ formatter.width = None /\ ~formatter.sign_plus

\* C23: the string that format returns under the default configuration, with
\* or without the separator, parses back to the value it was made from.
ThmC23 == op = "from_str" /\ DefaultConfig => out = Ok(lhs)

\* MIN and -0.5 with the separator are parsed back
WitC23 ==
    /\ op = "from_str"
    /\ DefaultConfig
    /\ formatter.separator = Some("_")
    /\ lhs \in {MIN, Dec(-5, 18)}
    /\ "_" \in {str[i] : i \in 1..Len(str)} \/ str = <<"-", "0", ".", "5">>
    /\ out = Ok(lhs)

\* the number as format renders it without a width
Rendered == format(lhs, [formatter EXCEPT !.width = None])

\* the number of fill characters needed to reach the width
Pad ==
    IF IsSome(formatter.width) /\ formatter.width.some > Len(Rendered)
    THEN formatter.width.some - Len(Rendered) ELSE 0

\* C24: Right and an unset alignment put the fill characters before the
\* number, Left puts them after it, Center puts floor(pad / 2) of them before
\* it and the rest after it; without a width, or with one that is not larger
\* than the rendered number, nothing is added.
CexC24 ==
    op = "format" /\ ~IsPanic(format_round(lhs, formatter)) =>
        out = IF formatter.align = Some("Left")
              THEN Rendered \o repeat(formatter.fill, Pad)
              ELSE IF formatter.align = Some("Center")
              THEN repeat(formatter.fill, Pad \div 2) \o Rendered
                       \o repeat(formatter.fill, Pad - (Pad \div 2))
              ELSE repeat(formatter.fill, Pad) \o Rendered

\* the integer part of lhs, cut toward zero
Truncated == Signed(lhs.neg, NDivPow10(lhs.mag, FRAC_PLACES))

\* the least and the greatest value of the integer type that op converts to
TargetMin ==
    CASE op = "try_into_i64" -> Signed(TRUE, NPow2(63))
      [] op = "try_into_i32" -> Signed(TRUE, NPow2(31))
      [] op = "try_into_i16" -> IFromInt(-32768)
      [] op = "try_into_i8" -> IFromInt(-128)
      [] OTHER -> Zero

TargetMax ==
    CASE op = "try_into_i64" -> ISub(Signed(FALSE, NPow2(63)), One)
      [] op = "try_into_u32" -> ISub(Signed(FALSE, NPow2(32)), One)
      [] op = "try_into_i32" -> ISub(Signed(FALSE, NPow2(31)), One)
      [] op = "try_into_u16" -> IFromInt(65535)
      [] op = "try_into_i16" -> IFromInt(32767)
      [] op = "try_into_u8" -> IFromInt(255)
      [] OTHER -> IFromInt(127)

\* the conversions to i64 and the narrower types return the integer part
\* when it is in the range of the type and an error otherwise
NarrowChecked ==
    op \in {"try_into_i64", "try_into_u32", "try_into_i32", "try_into_u16",
            "try_into_i16", "try_into_u8", "try_into_i8"} =>
        IF ICmp(Truncated, TargetMin) >= 0 /\ ICmp(Truncated, TargetMax) <= 0
        THEN out = Ok(Truncated) ELSE ~IsOk(out)

\* C25: into_u64, into_i128 and into_u128 return the integer part of the
\* value, cut toward zero; the conversions to i64 and the narrower types
\* return it when it is in the range of the type and an error otherwise.
CexC25 ==
    /\ op \in {"into_u64", "into_i128", "into_u128"} => out = Truncated
    /\ NarrowChecked

\* x, y and z are in [-10^18, 10^18]
WithinRange ==
    \A v \in {lhs, rhs, addend} : NCmp(v.mag, NPow10(37)) <= 0

\* neither side of the distributive law overflows
BothSides ==
    /\ WithinRange
    /\ IsSome(mul_of_sum(lhs, rhs, addend))
    /\ IsSome(sum_of_muls(lhs, rhs, addend))

\* the operations commute
Commutes ==
    /\ op = "checked_mul" => out = checked_mul(rhs, lhs)
    /\ op = "checked_add" => out = checked_add(rhs, lhs)

\* C26 as stated: x * (y + z) and x * y + x * z have the same repr when
\* nothing overflows, and the operations commute.
CexC26 ==
    /\ op = "mul_of_sum" /\ BothSides => out = sum_of_muls(lhs, rhs, addend)
    /\ Commutes

\* x * y and x * z are exact: neither product drops a digit
ExactProducts ==
    /\ NModPow10(NMul(lhs.mag, rhs.mag), FRAC_PLACES) = << >>
    /\ NModPow10(NMul(lhs.mag, addend.mag), FRAC_PLACES) = << >>

\* C26, amended: when nothing overflows x * (y + z) and x * y + x * z differ
\* by at most one step, and they are equal when x * y and x * z are exact;
\* the operations commute.
ThmC26 ==
    /\ op = "mul_of_sum" /\ BothSides =>
           /\ NCmp(ISub(out.some, sum_of_muls(lhs, rhs, addend).some).mag, <<1>>) <= 0
           /\ ExactProducts => out = sum_of_muls(lhs, rhs, addend)
    /\ Commutes

\* 0.5 * (1 step + 1 step) is one step, 0.5 * 1 step + 0.5 * 1 step is zero
WitC26 ==
    /\ op = "mul_of_sum"
    /\ lhs = Dec(5, 18) /\ rhs = One /\ addend = One
    /\ BothSides
    /\ out = Some(One)
    /\ sum_of_muls(lhs, rhs, addend) = Some(Zero)

\* C27: checked_mul_opt and checked_mul_no_opt return the same for every pair
\* of operands: both None, or both the same value.
ThmC27 ==
    /\ op = "checked_mul_opt" => out = checked_mul_no_opt(lhs, rhs)
    /\ op = "checked_mul_no_opt" => out = checked_mul_opt(lhs, rhs)

\* -2.2 * -2.2 = 4.84 in the last branch of checked_mul_opt, where both
\* operands have an integer and a fractional part
WitC27 ==
    /\ op = "checked_mul_opt"
    /\ lhs = Dec(-22, 18) /\ rhs = Dec(-22, 18)
    /\ u128_rem_scale(lhs.mag) # << >> /\ u128_div_scale(rhs.mag) # << >>
    /\ out = Some(Dec(484, 17))

\* r is the square root of x cut to 19 fractional digits:
\* r.repr^2 <= x.repr * 10^19 < (r.repr + 1)^2
IsTruncSqrt(r, x) ==
    /\ ~r.neg
    /\ NCmp(NMul(r.mag, r.mag), NMul(x.mag, FRAC_SCALE_U128)) <= 0
    /\ NCmp(NMul(x.mag, FRAC_SCALE_U128),
            NMul(NAdd(r.mag, <<1>>), NAdd(r.mag, <<1>>))) < 0

\* C28: for every x >= 0 checked_sqrt returns the exact square root of x, cut
\* toward zero at 19 fractional digits.
CexC28 ==
    op = "checked_sqrt" /\ ICmp(lhs, Zero) >= 0
        => IsSome(out) /\ IsTruncSqrt(out.some, lhs)

\* C29: every call of checked_sqrt and checked_ln returns: the loop of the
\* square root for x >= 0 and the three loops of the logarithm for x > 0 come
\* to their end.
ThmC29 == <>(Returned /\ out # Panic)

\* ln(MAX) has returned, after 64 turns of the first loop and the series
WitC29 ==
    /\ op = "checked_ln"
    /\ lhs = MAX
    /\ out = checked_ln(lhs)
    /\ IsSome(out)

\* C30: when the series of ln begins, the reduced v is in
\* [7_071_067_811_865_475_244, 14_142_135_623_730_950_488] and
\* |u| < 10^19 / 5; ln(1) = 0.
ThmC30 ==
    /\ op = "ln_series" =>
           /\ ICmp(out.v, Signed(FALSE, NLit(<<707, 1067, 8118, 6547, 5244>>))) >= 0
           /\ ICmp(out.v, Signed(FALSE, NLit(<<1414, 2135, 6237, 3095, 488>>))) <= 0
           /\ out.u = IDiv(IMul(ISub(out.v, POW10[19]), POW10[19]),
                           IAdd(out.v, POW10[19]))
           /\ NCmp(out.u.mag, Dec(2, 18).mag) < 0
    /\ op = "checked_ln" /\ lhs = Dec(1, 19) => out = Some(Zero)

\* 2 * sqrt(2) + 1 step is halved once, onto the upper end of the interval
WitC30 ==
    /\ op = "ln_series"
    /\ lhs = IAdd(IAdd(SQRT2_UP, SQRT2_UP), One)
    /\ out.exp = 1
    /\ out.v = SQRT2_UP

====
